---- MODULE Spec2Model ----
(***************************************************************************)
(* Team health check: votes, team summaries and department summaries.      *)
(* The model follows src/core/views.py (vote, vote_all_submit, profile,    *)
(* update_team_summary, update_department_summary), src/core/api/views.py  *)
(* (submit_vote) and the tables of src/core/models.py.                     *)
(*                                                                         *)
(* Percentages are Python floats in the source; here they are exact        *)
(* rationals <<numerator, denominator>> in lowest terms, so equality of    *)
(* percentages below is equality up to floating-point rounding in the code. *)
(***************************************************************************)
EXTENDS Integers, Sequences, FiniteSets, TLC

\* ---------------------------------------------------------------- bounds
NumUsers == 3
NumTeams == 2
NumSessions == 1
NumCards == 1
MaxOps == 3
NumClosedSessions == 3

Users == 1..NumUsers
Teams == 1..NumTeams
Sessions == 1..NumSessions
Cards == 1..NumCards

\* Every Session row: the sessions above and the sessions of earlier health
\* checks, which are closed.
AllSessions == 1..(NumSessions + NumClosedSessions)

\* Session.date, as a day number. Session 1 is today's; the others lie in the
\* past, two of them on the same day (the column is not unique).
SessionDate(s) == IF s = 1 THEN NumSessions + NumClosedSessions ELSE s \div 2

\* A card id that names no HealthCheckCard row (get_object_or_404 raises).
UnknownCard == 0

\* HealthCheckCard.active: the cards above are the active ones, listed on the
\* voting pages; one more card is stored with active = False.
InactiveCards == {NumCards + 1}

AllCards == Cards \cup InactiveCards

CardIsActive(c) == c \in Cards

\* The users who hold no voting role and have no team (a department leader).
OtherUsers == {NumUsers + 1}

AllUsers == Users \cup OtherUsers

\* User.team is nullable (models.py:67-72).
NoTeam == 0

\* ------------------------------------------------------- static org data
\* Team.department is a mandatory foreign key: every team has a department.
TeamDepartment(t) == IF t <= 2 THEN 1 ELSE 2

Departments == {TeamDepartment(t) : t \in Teams}

\* A senior manager, who has no team and no department.
ManagerUsers == {NumUsers + 2}

\* Every user who can log in and look at pages.
Viewers == AllUsers \cup ManagerUsers

\* User.role
UserRole(u) ==
    IF u = 1 THEN "team_leader"
    ELSE IF u \in Users THEN "engineer"
    ELSE IF u \in OtherUsers THEN "department_leader"
    ELSE "senior_manager"

\* Session.is_active: the first session is the open one.
SessionIsActive(s) == s = 1

\* The team each user starts in: user 1 alone in team 1, the other voters in
\* team 2, the department leader in none.
InitialTeam(u) == IF u = 1 THEN 1 ELSE IF u \in Users THEN 2 ELSE NoTeam

\* No Session row: the result of .first() on an empty query, or a session
\* form that is not valid.
NoSession == 0

\* User.department is nullable (models.py:58-63).
NoDepartment == 0

\* Every Department row: the departments of the teams above and one more.
AllDepartments == {TeamDepartment(t) : t \in 1..(NumTeams + 1)}

\* A department id that names no Department row.
UnknownDepartment == NumTeams + 2

\* User.department: the voters belong to the department of their team, the
\* department leader leads department 1.
UserDepartment(u) ==
    IF u \in Users THEN TeamDepartment(InitialTeam(u))
    ELSE IF u \in OtherUsers THEN 1
    ELSE NoDepartment

VOTE_CHOICES == {"green", "amber", "red"}

PROGRESS_CHOICES == {"better", "same", "worse"}

\* A posted field that is absent or empty.
Missing == ""

\* A string that is not one of VOTE_CHOICES (the column is a plain CharField).
OtherValue == "blue"

\* ------------------------------------------------------------- rationals
RECURSIVE GCD(_, _)
GCD(a, b) == IF b = 0 THEN a ELSE GCD(b, a % b)

Norm(q) ==
    IF q[1] = 0 THEN <<0, 1>>
    ELSE LET g == GCD(q[1], q[2]) IN <<q[1] \div g, q[2] \div g>>

RAdd(p, q) == Norm(<<p[1] * q[2] + q[1] * p[2], p[2] * q[2]>>)

RDivInt(p, n) == Norm(<<p[1], p[2] * n>>)

RGeq(p, q) == p[1] * q[2] >= q[1] * p[2]

RInt(n) == <<n, 1>>

\* ---------------------------------------------------------------- tables
\* A database state: the Vote, TeamSummary and DepartmentSummary tables, the
\* users' team assignment, and the log of what the running request did.
Event(kind, a, s, c) ==
    [ev |-> kind, a |-> a, s |-> s, c |-> c, value |-> "", progress_note |-> ""]

\* The log entry of a Vote row written by UPDATE or by INSERT.
Stored(kind, row) ==
    [ev |-> kind, a |-> row.user, s |-> row.session, c |-> row.card,
     value |-> row.value, progress_note |-> row.progress_note]

Log(db, e) == [db EXCEPT !.trace = Append(@, e)]

VoteRow(u, s, c, value, progress) ==
    [user |-> u, session |-> s, card |-> c, value |-> value,
     progress_note |-> progress]

VoteKeyRows(V, u, s, c) ==
    {v \in V : v.user = u /\ v.session = s /\ v.card = c}

\* Never-enforced variant of the constraint.
UniqueViolationOff(V, u, s, c) == FALSE

\* Vote.Meta.unique_together = ('user', 'card', 'session'): an INSERT of a
\* second row for the triple raises IntegrityError.
UniqueViolation(V, u, s, c) == VoteKeyRows(V, u, s, c) # {}

\* The filter without its user__team condition.
TeamVotesAnyTeam(V, UT, team, session, card) ==
    {v \in V : v.session = session /\ v.card = card}

\* Vote.objects.filter(user__team=team, session=session, card=card)
TeamVotes(V, UT, team, session, card) ==
    {v \in V : UT[v.user] = team /\ v.session = session /\ v.card = card}

\* votes.values('value').annotate(count=Count('value')), then .get(value, 0)
CountValue(vs, value) == Cardinality({v \in vs : v.value = value})

\* The quotient taken as an integer division before the multiplication.
PctFloorDivision(count, total) ==
    IF total > 0 THEN RInt((count \div total) * 100) ELSE RInt(0)

\* (count / total_votes) * 100 if total_votes > 0 else 0
Pct(count, total) == IF total > 0 THEN Norm(<<count * 100, total>>) ELSE RInt(0)

\* The comparison chain started from red instead of green.
TeamAverageVoteRedFirst(g, a, r) ==
    IF RGeq(r, a) /\ RGeq(r, g) THEN "red"
    ELSE IF RGeq(a, g) /\ RGeq(a, r) THEN "amber"
    ELSE "green"

\* views.py:1245-1250
TeamAverageVote(g, a, r) ==
    IF RGeq(g, a) /\ RGeq(g, r) THEN "green"
    ELSE IF RGeq(a, g) /\ RGeq(a, r) THEN "amber"
    ELSE "red"

CountProgress(vs, p) == Cardinality({v \in vs : v.progress_note = p})

\* The comparison chain started from worse instead of better.
TeamProgressSummaryWorseFirst(b, s, w) ==
    IF w >= s /\ w >= b THEN "worse"
    ELSE IF s >= b /\ s >= w THEN "same"
    ELSE "better"

\* views.py:1263-1268
TeamProgressSummary(b, s, w) ==
    IF b >= s /\ b >= w THEN "better"
    ELSE IF s >= b /\ s >= w THEN "same"
    ELSE "worse"

SummaryRow(owner, s, c, avg, prog, g, a, r) ==
    [owner |-> owner, session |-> s, card |-> c, average_vote |-> avg,
     progress_summary |-> prog, green_percentage |-> g,
     amber_percentage |-> a, red_percentage |-> r]

KeyRows(T, owner, s, c) ==
    {x \in T : x.owner = owner /\ x.session = s /\ x.card = c}

\* A plain INSERT that never looks the key up.
UpdateOrCreateInsertOnly(T, row) == T \cup {row}

\* get_or_create: a row that exists is left as it is.
UpdateOrCreateKeepExisting(T, row) ==
    IF KeyRows(T, row.owner, row.session, row.card) # {} THEN T ELSE T \cup {row}

\* The lookup by owner alone: the row replaces every row of the owner.
UpdateOrCreateByOwner(T, row) == {x \in T : x.owner # row.owner} \cup {row}

\* objects.update_or_create(<key>, defaults=...): the row of the key is
\* updated in place, or a row is inserted when there is none.
UpdateOrCreate(T, row) ==
    (T \ KeyRows(T, row.owner, row.session, row.card)) \cup {row}

\* Every team of the department listed, a team without a row as a row of
\* zero percentages.
DepartmentTeamSummariesZeroFilled(T, department, s, c) ==
    {x \in T : TeamDepartment(x.owner) = department /\ x.session = s /\ x.card = c}
    \cup {SummaryRow(t, s, c, "green", "better", RInt(0), RInt(0), RInt(0)) :
             t \in {y \in Teams : TeamDepartment(y) = department
                                    /\ KeyRows(T, y, s, c) = {}}}

\* TeamSummary.objects.filter(team__department=department, session, card)
DepartmentTeamSummaries(T, department, s, c) ==
    {x \in T : TeamDepartment(x.owner) = department /\ x.session = s /\ x.card = c}

RECURSIVE SumField(_, _)
SumField(rows, f) ==
    IF rows = {} THEN RInt(0)
    ELSE LET x == CHOOSE y \in rows : TRUE
         IN RAdd(x[f], SumField(rows \ {x}, f))

\* The sum divided by the number of teams of the model instead of the number
\* of rows.
AvgOverAllTeams(rows, f) == RDivInt(SumField(rows, f), NumTeams)

\* team_summaries.aggregate(avg=Avg(field))['avg']
Avg(rows, f) == RDivInt(SumField(rows, f), Cardinality(rows))

\* views.py:1341-1346
DepartmentAverageVote(g, a, r) ==
    IF RGeq(g, a) /\ RGeq(g, r) THEN "green"
    ELSE IF RGeq(a, g) /\ RGeq(a, r) THEN "amber"
    ELSE "red"

\* team_summaries.filter(progress_summary=p).count()
CountProgressSummary(rows, p) ==
    Cardinality({x \in rows : x.progress_summary = p})

\* views.py:1358-1363
DepartmentProgressSummary(b, s, w) ==
    IF b >= s /\ b >= w THEN "better"
    ELSE IF s >= b /\ s >= w THEN "same"
    ELSE "worse"

\* The red average taken over the amber column.
update_department_summary_red_from_amber(db, department, s, c) ==
    LET called == Log(db, Event("dept_call", department, s, c))
        team_summaries == DepartmentTeamSummaries(db.ts, department, s, c)
        green_pct == Avg(team_summaries, "green_percentage")
        amber_pct == Avg(team_summaries, "amber_percentage")
        red_pct == Avg(team_summaries, "amber_percentage")
        row == SummaryRow(department, s, c,
                          DepartmentAverageVote(green_pct, amber_pct, red_pct),
                          DepartmentProgressSummary(
                              CountProgressSummary(team_summaries, "better"),
                              CountProgressSummary(team_summaries, "same"),
                              CountProgressSummary(team_summaries, "worse")),
                          green_pct, amber_pct, red_pct)
    IN  IF team_summaries = {} THEN called
        ELSE Log([called EXCEPT !.ds = UpdateOrCreate(@, row)],
                 Event("dept_write", department, s, c))

\* update_department_summary(department, session, card)
update_department_summary(db, department, s, c) ==
    LET called == Log(db, Event("dept_call", department, s, c))
        team_summaries == DepartmentTeamSummaries(db.ts, department, s, c)
        green_pct == Avg(team_summaries, "green_percentage")
        amber_pct == Avg(team_summaries, "amber_percentage")
        red_pct == Avg(team_summaries, "red_percentage")
        avg_vote == DepartmentAverageVote(green_pct, amber_pct, red_pct)
        progress_summary ==
            DepartmentProgressSummary(
                CountProgressSummary(team_summaries, "better"),
                CountProgressSummary(team_summaries, "same"),
                CountProgressSummary(team_summaries, "worse"))
        row == SummaryRow(department, s, c, avg_vote, progress_summary,
                          green_pct, amber_pct, red_pct)
    IN  IF team_summaries = {} THEN called
        ELSE Log([called EXCEPT !.ds = UpdateOrCreate(@, row)],
                 Event("dept_write", department, s, c))

\* No cascade to the department.
AfterTeamWriteNoCascade(db, team, s, c) == db

\* The cascade of update_team_summary (views.py:1287-1290), after the
\* TeamSummary row has been written.
AfterTeamWrite(db, team, s, c) ==
    update_department_summary(db, TeamDepartment(team), s, c)

\* The TeamSummary row update_team_summary computes from a non-empty vote set.
TeamSummaryOf(votes, team, s, c) ==
    LET total_votes == Cardinality(votes)
        green_pct == Pct(CountValue(votes, "green"), total_votes)
        amber_pct == Pct(CountValue(votes, "amber"), total_votes)
        red_pct == Pct(CountValue(votes, "red"), total_votes)
        avg_vote == TeamAverageVote(green_pct, amber_pct, red_pct)
        progress_summary ==
            TeamProgressSummary(CountProgress(votes, "better"),
                                CountProgress(votes, "same"),
                                CountProgress(votes, "worse"))
    IN  SummaryRow(team, s, c, avg_vote, progress_summary,
                   green_pct, amber_pct, red_pct)

\* The write without the "if votes.exists():" test: zero votes give a row of
\* zero percentages.
WriteTeamSummaryAlways(db, votes, team, s, c) ==
    AfterTeamWrite(
        Log([db EXCEPT !.ts = UpdateOrCreate(@, TeamSummaryOf(votes, team, s, c))],
            Event("team_write", team, s, c)),
        team, s, c)

\* update_team_summary from "if votes.exists():" on (views.py:1228-1290),
\* given the votes its queries returned.
WriteTeamSummary(db, votes, team, s, c) ==
    LET row == TeamSummaryOf(votes, team, s, c)
        written == Log([db EXCEPT !.ts = UpdateOrCreate(@, row)],
                       Event("team_write", team, s, c))
    IN  IF votes = {} THEN db
        ELSE AfterTeamWrite(written, team, s, c)

\* update_team_summary(team, session, card)
update_team_summary(db, team, s, c) ==
    LET called == Log(db, Event("team_call", team, s, c))
    IN  WriteTeamSummary(called, TeamVotes(db.votes, db.userTeam, team, s, c),
                         team, s, c)

\* ---------------------------------------------------------- participation
\* The team argument left out (team=None).
AllTeams == NoTeam

\* Votes counted instead of distinct users.
ParticipantsNotDistinct(vs) == Cardinality(vs)

\* .values('user').distinct().count()
Participants(vs) == Cardinality({v.user : v \in vs})

\* Session.get_participation_rate(team=None), as a rational.
get_participation_rate(V, UT, self, team) ==
    IF team # AllTeams
    THEN LET eligible_users == Cardinality({u \in DOMAIN UT : UT[u] = team})
             participants ==
                 Participants({v \in V : v.session = self /\ UT[v.user] = team})
         IN  IF eligible_users = 0 THEN RInt(0)
             ELSE Norm(<<participants * 100, eligible_users>>)
    ELSE LET eligible_users == Cardinality(DOMAIN UT)
             participants == Participants({v \in V : v.session = self})
         IN  IF eligible_users = 0 THEN RInt(0)
             ELSE Norm(<<participants * 100, eligible_users>>)

\* ----------------------------------------------------------------- trends
\* The result None of calculate_trend.
None == "None"

\* The result None of get_previous_summary: no row.
NoSummary ==
    [owner |-> 0, session |-> 0, card |-> 0, average_vote |-> None,
     progress_summary |-> None, green_percentage |-> <<0, 1>>,
     amber_percentage |-> <<0, 1>>, red_percentage |-> <<0, 1>>]

\* The filter with date__lte in place of date__lt.
PreviousSessionsOrSame(s) ==
    {p \in AllSessions : SessionDate(p) <= SessionDate(s)}

\* Session.objects.filter(date__lt=self.session.date)
PreviousSessions(s) ==
    {p \in AllSessions : SessionDate(p) < SessionDate(s)}

\* .order_by('-date'): the listings of a set of sessions, newest first. The
\* order of two sessions of one date is the database's choice.
NewestFirst(S) ==
    {q \in [1..Cardinality(S) -> S] :
        /\ \A i, j \in 1..Cardinality(S) : i # j => q[i] # q[j]
        /\ \A i, j \in 1..Cardinality(S) : i < j => SessionDate(q[i]) >= SessionDate(q[j])}

\* The loop of get_previous_summary over previous_sessions: the row of the
\* first session that has one for the owner and card, or None.
RECURSIVE FirstSummary(_, _, _, _)
FirstSummary(T, owner, card, previous_sessions) ==
    IF previous_sessions = <<>> THEN NoSummary
    ELSE LET found == KeyRows(T, owner, Head(previous_sessions), card)
         IN  IF found # {} THEN CHOOSE row \in found : TRUE
             ELSE FirstSummary(T, owner, card, Tail(previous_sessions))

\* TeamSummary.get_previous_summary and DepartmentSummary.get_previous_summary
\* on a row of table T, with the query's result listed as previous_sessions.
get_previous_summary(T, self, previous_sessions) ==
    FirstSummary(T, self.owner, self.card, previous_sessions)

\* The scores the other way round.
score_map_reversed(v) ==
    CASE v = "green" -> 1
      [] v = "amber" -> 2
      [] v = "red" -> 3
      [] OTHER -> 0

\* score_map.get(average_vote); 0 stands for the None of a missing key.
score_map(v) ==
    CASE v = "green" -> 3
      [] v = "amber" -> 2
      [] v = "red" -> 1
      [] OTHER -> 0

\* calculate_trend of both summary models, given the previous summary found.
\* Comparing a missing score raises TypeError.
calculate_trend(self, previous_summary) ==
    LET current_score == score_map(self.average_vote)
        previous_score ==
            IF previous_summary = NoSummary THEN 0
            ELSE score_map(previous_summary.average_vote)
    IN  IF previous_summary = NoSummary THEN None
        ELSE IF current_score = 0 \/ previous_score = 0 THEN "TypeError"
        ELSE IF current_score > previous_score THEN "improving"
        ELSE IF current_score < previous_score THEN "declining"
        ELSE "stable"

\* ------------------------------------------------------------------ state
VARIABLES
    userTeam,        \* User.team of every user (NoTeam when null)
    votes,           \* the Vote table
    teamSummaries,   \* the TeamSummary table
    deptSummaries,   \* the DepartmentSummary table
    last,            \* the request served last: kind, user, result, log
    ops,             \* number of requests served so far
    procs            \* the requests in progress, one slot per server worker

vars == <<userTeam, votes, teamSummaries, deptSummaries, last, ops, procs>>

NoRequest == [kind |-> "none", user |-> 0, result |-> "none", trace |-> <<>>]

NumProcs == 2

Procs == 1..NumProcs

IdleProc ==
    [pc |-> "idle", kind |-> "none", user |-> 0, team |-> NoTeam, session |-> 0,
     card |-> 0, value |-> Missing, progress |-> Missing, loaded |-> FALSE,
     snapshot |-> {}, summaries |-> {}, result |-> "none"]

Init ==
    /\ procs = [p \in Procs |-> IdleProc]
    /\ userTeam = [u \in AllUsers |-> InitialTeam(u)]
    /\ votes = {}
    /\ teamSummaries = {}
    /\ deptSummaries = {}
    /\ last = NoRequest
    /\ ops = 0

\* The database as a request finds it, with an empty log.
DB ==
    [votes |-> votes, ts |-> teamSummaries, ds |-> deptSummaries,
     userTeam |-> userTeam, trace |-> <<>>]

\* The request ends: its database state is what is stored from now on.
Respond(db, kind, u, result) ==
    /\ votes' = db.votes
    /\ teamSummaries' = db.ts
    /\ deptSummaries' = db.ds
    /\ userTeam' = db.userTeam
    /\ last' = [kind |-> kind, user |-> u, result |-> result, trace |-> db.trace]
    /\ ops' = ops + 1
    /\ UNCHANGED procs

CanVoteRole(u) == UserRole(u) \in {"engineer", "team_leader"}

\* Model.save() of a Vote: UPDATE of the row the instance was loaded from, or
\* INSERT of a new row, which the unique constraint may reject.
SaveVote(db, loaded, row) ==
    LET u == row.user
        s == row.session
        c == row.card
    IN  IF loaded
        THEN [ok |-> TRUE,
              db |-> Log([db EXCEPT !.votes = (@ \ VoteKeyRows(@, u, s, c)) \cup {row}],
                         Stored("update", row))]
        ELSE IF UniqueViolation(db.votes, u, s, c)
        THEN [ok |-> FALSE, db |-> Log(db, Stored("integrity_error", row))]
        ELSE [ok |-> TRUE,
              db |-> Log([db EXCEPT !.votes = @ \cup {row}], Stored("insert", row))]

\* VoteForm.is_valid(): a ModelForm checks both fields against their choices.
VoteFormIsValid(value, progress) ==
    value \in VOTE_CHOICES /\ progress \in PROGRESS_CHOICES

\* views.py vote(), POST
Vote(u, s, c, value, progress) ==
    /\ ops < MaxOps
    /\ IF ~CanVoteRole(u) \/ userTeam[u] = NoTeam \/ ~SessionIsActive(s)
       THEN Respond(DB, "vote", u, "rejected")
       ELSE IF ~VoteFormIsValid(value, progress)
       THEN Respond(DB, "vote", u, "invalid")
       ELSE LET loaded == VoteKeyRows(votes, u, s, c) # {}
                saved == SaveVote(DB, loaded, VoteRow(u, s, c, value, progress))
            IN  IF ~saved.ok
                THEN Respond(saved.db, "vote", u, "error")
                ELSE Respond(update_team_summary(saved.db, userTeam[u], s, c),
                             "vote", u, "ok")

\* One pass of the loop of vote_all_submit over card_ids (views.py:522-555).
\* post maps a card id to the posted value_<id> and progress_<id>.
RECURSIVE VoteAllLoop(_, _, _, _, _)
VoteAllLoop(db, u, s, card_ids, post) ==
    IF card_ids = <<>> THEN [ok |-> TRUE, db |-> db]
    ELSE LET c == Head(card_ids)
             rest == Tail(card_ids)
         IN  IF c \notin AllCards
             THEN [ok |-> FALSE, db |-> Log(db, Event("http404", u, s, c))]
             ELSE IF post[c].value = Missing \/ post[c].progress = Missing
             THEN VoteAllLoop(Log(db, Event("skipped", u, s, c)), u, s, rest, post)
             ELSE LET loaded == VoteKeyRows(db.votes, u, s, c) # {}
                      saved == SaveVote(db, loaded,
                                        VoteRow(u, s, c, post[c].value, post[c].progress))
                  IN  IF ~saved.ok THEN saved
                      ELSE VoteAllLoop(update_team_summary(saved.db, db.userTeam[u], s, c),
                                       u, s, rest, post)

\* No transaction: what was written before the exception stays.
RolledBackKeepsWrites(before, after) == after

\* transaction.atomic() left by an exception: every write of the block is
\* undone; the log of what was attempted is kept.
RolledBack(before, after) == [before EXCEPT !.trace = after.trace]

\* ------------------------------------------------- aggregation that fails
\* Where a database error (OperationalError) strikes a call of
\* update_team_summary: nowhere, at the queries before the TeamSummary is
\* written, or inside update_department_summary after it was written.
FailurePoints == {"none", "team", "department"}

\* DATABASES['default']['ATOMIC_REQUESTS']: the settings module is not among
\* the sources; Django's default, under which vote.save() in vote() is
\* committed by itself.
AtomicRequests == FALSE

\* The two functions without their "with transaction.atomic():" blocks.
update_team_summary_not_atomic(db, team, s, c, fail) ==
    LET called == Log(db, Event("team_call", team, s, c))
        team_votes == TeamVotes(db.votes, db.userTeam, team, s, c)
        written == Log([called EXCEPT !.ts = UpdateOrCreate(@, TeamSummaryOf(team_votes, team, s, c))],
                       Event("team_write", team, s, c))
    IN  IF fail = "team"
        THEN [ok |-> FALSE, db |-> Log(called, Event("db_error", team, s, c))]
        ELSE IF team_votes = {} THEN [ok |-> TRUE, db |-> called]
        ELSE IF fail = "department"
        THEN [ok |-> FALSE,
              db |-> Log(Log(written, Event("dept_call", TeamDepartment(team), s, c)),
                         Event("db_error", team, s, c))]
        ELSE [ok |-> TRUE, db |-> AfterTeamWrite(written, team, s, c)]

\* update_team_summary(team, session, card) with a database error at point
\* fail: the exception leaves the atomic block of update_department_summary
\* and that of update_team_summary (views.py:1218, 1322), which roll back.
update_team_summary_or_fail(db, team, s, c, fail) ==
    LET called == Log(db, Event("team_call", team, s, c))
        team_votes == TeamVotes(db.votes, db.userTeam, team, s, c)
        written == Log([called EXCEPT !.ts = UpdateOrCreate(@, TeamSummaryOf(team_votes, team, s, c))],
                       Event("team_write", team, s, c))
    IN  IF fail = "team"
        THEN [ok |-> FALSE,
              db |-> RolledBack(db, Log(called, Event("db_error", team, s, c)))]
        ELSE IF team_votes = {} THEN [ok |-> TRUE, db |-> called]
        ELSE IF fail = "department"
        THEN [ok |-> FALSE,
              db |-> RolledBack(db,
                         Log(Log(written, Event("dept_call", TeamDepartment(team), s, c)),
                             Event("db_error", team, s, c)))]
        ELSE [ok |-> TRUE, db |-> AfterTeamWrite(written, team, s, c)]

\* views.py vote(), POST, with a database error in the aggregation: the
\* exception leaves the view and the request is answered with a server error.
VoteFailing(u, s, c, value, progress, fail) ==
    /\ ops < MaxOps
    /\ CanVoteRole(u) /\ userTeam[u] # NoTeam /\ SessionIsActive(s)
    /\ VoteFormIsValid(value, progress)
    /\ LET loaded == VoteKeyRows(votes, u, s, c) # {}
           saved == SaveVote(DB, loaded, VoteRow(u, s, c, value, progress))
           done == update_team_summary_or_fail(saved.db, userTeam[u], s, c, fail)
       IN  IF done.ok THEN Respond(done.db, "vote", u, "ok")
           ELSE IF AtomicRequests
           THEN Respond(RolledBack(DB, done.db), "vote", u, "server_error")
           ELSE Respond(done.db, "vote", u, "server_error")

\* The loop of vote_all_submit with a database error in the first aggregation
\* it reaches.
RECURSIVE VoteAllLoopFailing(_, _, _, _, _, _)
VoteAllLoopFailing(db, u, s, card_ids, post, fail) ==
    IF card_ids = <<>> THEN [ok |-> TRUE, db |-> db]
    ELSE LET c == Head(card_ids)
             rest == Tail(card_ids)
         IN  IF c \notin AllCards
             THEN [ok |-> FALSE, db |-> Log(db, Event("http404", u, s, c))]
             ELSE IF post[c].value = Missing \/ post[c].progress = Missing
             THEN VoteAllLoopFailing(Log(db, Event("skipped", u, s, c)),
                                     u, s, rest, post, fail)
             ELSE LET loaded == VoteKeyRows(db.votes, u, s, c) # {}
                      saved == SaveVote(db, loaded,
                                        VoteRow(u, s, c, post[c].value, post[c].progress))
                      done == update_team_summary_or_fail(saved.db, db.userTeam[u], s, c, fail)
                  IN  IF ~saved.ok THEN saved
                      ELSE IF ~done.ok THEN done
                      ELSE VoteAllLoop(done.db, u, s, rest, post)

\* views.py vote_all_submit(), POST, with a database error in an aggregation:
\* the exception leaves the atomic block of the loop (views.py:521), which
\* rolls back, and the request is answered with a server error.
VoteAllSubmitFailing(u, s, card_ids, post, fail) ==
    /\ ops < MaxOps
    /\ CanVoteRole(u) /\ userTeam[u] # NoTeam /\ SessionIsActive(s)
    /\ LET done == VoteAllLoopFailing(DB, u, s, card_ids, post, fail)
           failed == \E i \in DOMAIN done.db.trace : done.db.trace[i].ev = "db_error"
       IN  IF done.ok THEN Respond(done.db, "vote_all_submit", u, "ok")
           ELSE Respond(RolledBack(DB, done.db), "vote_all_submit", u,
                        IF failed THEN "server_error" ELSE "error")

\* views.py vote_all_submit(), POST
VoteAllSubmit(u, s, card_ids, post) ==
    /\ ops < MaxOps
    /\ IF ~CanVoteRole(u) \/ userTeam[u] = NoTeam \/ ~SessionIsActive(s)
       THEN Respond(DB, "vote_all_submit", u, "rejected")
       ELSE LET done == VoteAllLoop(DB, u, s, card_ids, post)
            IN  IF done.ok
                THEN Respond(done.db, "vote_all_submit", u, "ok")
                ELSE Respond(RolledBack(DB, done.db), "vote_all_submit", u, "error")

\* Vote.objects.update_or_create(user, card, session, defaults=...): no form
\* and no full_clean(), so any string is stored; a null value breaks NOT NULL.
ApiUpsert(db, row) ==
    LET old == VoteKeyRows(db.votes, row.user, row.session, row.card)
    IN  IF row.value = Missing
        THEN [ok |-> FALSE, db |-> Log(db, Stored("integrity_error", row))]
        ELSE [ok |-> TRUE,
              db |-> Log([db EXCEPT !.votes = (@ \ old) \cup {row}],
                         Stored(IF old = {} THEN "insert" ELSE "update", row))]

\* What submit_vote does after the upsert, before it answers (api/views.py:47-51).
ApiAfterUpsert(db, u, s, c) == db

\* api/views.py submit_vote()
ApiSubmitVote(u, s, c, value, progress) ==
    /\ ops < MaxOps
    /\ IF c \notin AllCards
       THEN Respond(DB, "api_submit_vote", u, "not_found")
       ELSE LET saved == ApiUpsert(DB, VoteRow(u, s, c, value, progress))
            IN  IF ~saved.ok
                THEN Respond(saved.db, "api_submit_vote", u, "error")
                ELSE Respond(ApiAfterUpsert(saved.db, u, s, c), "api_submit_vote", u, "ok")

\* views.py profile(), POST: the user moves to a team of the chosen
\* department, or to no team.
Profile(u, team) ==
    /\ ops < MaxOps
    /\ team # userTeam[u]
    /\ Respond([DB EXCEPT !.userTeam[u] = team], "profile", u, "ok")

\* The admin site's delete of one Vote row (admin.py: Vote is registered).
AdminDeleteVote(v) ==
    /\ ops < MaxOps
    /\ v \in votes
    /\ Respond([DB EXCEPT !.votes = @ \ {v}], "admin_delete_vote", v.user, "ok")

\* ------------------------------------------- requests served concurrently
\* Two workers serve requests at once. A step is one database statement, or
\* the statements of one transaction at the moment it commits; what a step
\* reads is what has been committed by then (READ COMMITTED).

\* The tables after a step, and the log of the step as the last request.
Store(db, kind, u, result) ==
    /\ votes' = db.votes
    /\ teamSummaries' = db.ts
    /\ deptSummaries' = db.ds
    /\ userTeam' = db.userTeam
    /\ last' = [kind |-> kind, user |-> u, result |-> result, trace |-> db.trace]

Free(p) == procs[p].pc \in {"idle", "done", "failed"}

\* vote(): the checks and Vote.objects.get (views.py:330-356), with a form
\* that is valid.
VoteGet(p, u, s, c, value, progress) ==
    /\ ops < MaxOps
    /\ Free(p)
    /\ CanVoteRole(u) /\ userTeam[u] # NoTeam /\ SessionIsActive(s)
    /\ VoteFormIsValid(value, progress)
    /\ procs' = [procs EXCEPT ![p] =
            [pc |-> "save", kind |-> "vote", user |-> u, team |-> userTeam[u],
             session |-> s, card |-> c, value |-> value, progress |-> progress,
             loaded |-> VoteKeyRows(votes, u, s, c) # {}, snapshot |-> {},
             summaries |-> {}, result |-> "none"]]
    /\ ops' = ops + 1
    /\ UNCHANGED <<userTeam, votes, teamSummaries, deptSummaries, last>>

\* vote(): vote.save() (views.py:364-369), committed on its own.
VoteSave(p) ==
    LET r == procs[p]
        saved == SaveVote(DB, r.loaded,
                          VoteRow(r.user, r.session, r.card, r.value, r.progress))
    IN  /\ r.pc = "save"
        /\ r.kind = "vote"
        /\ Store(saved.db, "vote", r.user, IF saved.ok THEN "ok" ELSE "error")
        /\ procs' = [procs EXCEPT ![p].pc = IF saved.ok THEN "read" ELSE "failed",
                                  ![p].result = IF saved.ok THEN "saved" ELSE "error"]
        /\ UNCHANGED ops

\* update_team_summary: the queries on Vote (views.py:1221-1261).
TeamRead(p) ==
    LET r == procs[p]
    IN  /\ r.pc = "read"
        /\ procs' = [procs EXCEPT ![p].pc = "write",
                                  ![p].snapshot =
                                      TeamVotes(votes, userTeam, r.team, r.session, r.card)]
        /\ UNCHANGED <<userTeam, votes, teamSummaries, deptSummaries, last, ops>>

\* update_team_summary: the TeamSummary write and the department update, and
\* the commit of the transaction (views.py:1270-1290).
TeamWrite(p) ==
    LET r == procs[p]
        done == WriteTeamSummary(DB, r.snapshot, r.team, r.session, r.card)
    IN  /\ r.pc = "write"
        /\ Store(done, r.kind, r.user, "ok")
        /\ procs' = [procs EXCEPT ![p].pc = "done", ![p].result = "ok"]
        /\ UNCHANGED ops

\* update_team_summary inside its transaction: the TeamSummary write, which
\* no other transaction sees before the commit, and the query of
\* update_department_summary on TeamSummary, which returns the committed rows
\* and the row just written (views.py:1270-1329).
TeamStage(p) ==
    LET r == procs[p]
        row == TeamSummaryOf(r.snapshot, r.team, r.session, r.card)
    IN  /\ r.pc = "write"
        /\ IF r.snapshot = {}
           THEN procs' = [procs EXCEPT ![p].pc = "done", ![p].result = "ok"]
           ELSE procs' = [procs EXCEPT ![p].pc = "department",
                                       ![p].summaries = UpdateOrCreate(teamSummaries, row)]
        /\ UNCHANGED <<userTeam, votes, teamSummaries, deptSummaries, last, ops>>

\* update_department_summary: the DepartmentSummary write from the rows the
\* query returned, and the commit of the transaction of update_team_summary
\* (views.py:1335-1380).
DepartmentCommit(p) ==
    LET r == procs[p]
        row == TeamSummaryOf(r.snapshot, r.team, r.session, r.card)
        seen == [DB EXCEPT !.ts = r.summaries]
        computed == AfterTeamWrite(Log(seen, Event("team_write", r.team, r.session, r.card)),
                                   r.team, r.session, r.card)
        done == [computed EXCEPT !.ts = UpdateOrCreate(teamSummaries, row)]
    IN  /\ r.pc = "department"
        /\ Store(done, r.kind, r.user, "ok")
        /\ procs' = [procs EXCEPT ![p].pc = "done", ![p].result = "ok"]
        /\ UNCHANGED ops

\* vote_all_submit() for one card: the checks and Vote.objects.get
\* (views.py:496-543).
VoteAllGet(p, u, s, c, value, progress) ==
    /\ ops < MaxOps
    /\ Free(p)
    /\ CanVoteRole(u) /\ userTeam[u] # NoTeam /\ SessionIsActive(s)
    /\ value # Missing /\ progress # Missing
    /\ procs' = [procs EXCEPT ![p] =
            [pc |-> "commit", kind |-> "vote_all_submit", user |-> u,
             team |-> userTeam[u], session |-> s, card |-> c, value |-> value,
             progress |-> progress, loaded |-> VoteKeyRows(votes, u, s, c) # {},
             snapshot |-> {}, summaries |-> {}, result |-> "none"]]
    /\ ops' = ops + 1
    /\ UNCHANGED <<userTeam, votes, teamSummaries, deptSummaries, last>>

\* vote_all_submit() for one card: vote.save(), update_team_summary and the
\* commit of the enclosing transaction (views.py:546-555).
VoteAllCommit(p) ==
    LET r == procs[p]
        saved == SaveVote(DB, r.loaded,
                          VoteRow(r.user, r.session, r.card, r.value, r.progress))
    IN  /\ r.pc = "commit"
        /\ IF saved.ok
           THEN /\ Store(update_team_summary(saved.db, r.team, r.session, r.card),
                         "vote_all_submit", r.user, "ok")
                /\ procs' = [procs EXCEPT ![p].pc = "done", ![p].result = "ok"]
           ELSE /\ Store(RolledBack(DB, saved.db), "vote_all_submit", r.user, "error")
                /\ procs' = [procs EXCEPT ![p].pc = "failed", ![p].result = "error"]
        /\ UNCHANGED ops

\* Vote.objects.create(...), as in tests.py test_vote_uniqueness_constraint:
\* an INSERT without a lookup.
CreateVote(u, s, c, value, progress) ==
    /\ ops < MaxOps
    /\ LET saved == SaveVote(DB, FALSE, VoteRow(u, s, c, value, progress))
       IN  Respond(saved.db, "create", u, IF saved.ok THEN "ok" ELSE "error")

\* ------------------------------------------------ summaries recomputed
\* One pass of the loop that ends the generate_active_data command
\* (lines 283-289): update_team_summary called on its own. The command is not
\* a request and is not counted in ops. The result says whether the call
\* repeats the call made just before it, with nothing in between.
Recompute(t, s, c) ==
    LET done == update_team_summary(DB, t, s, c)
        again == /\ last.kind = "recompute"
                 /\ last.trace[1] = Event("team_call", t, s, c)
    IN  /\ Store(done, "recompute", 0, IF again THEN "repeated" ELSE "ok")
        /\ UNCHANGED <<ops, procs>>

\* The admin site's delete of one TeamSummary row (admin.py:86).
AdminDeleteTeamSummary(row) ==
    /\ ops < MaxOps
    /\ row \in teamSummaries
    /\ Respond([DB EXCEPT !.ts = @ \ {row}], "admin_delete_team_summary", 0, "ok")

\* ------------------------------------------------- participation looked up
\* session.get_participation_rate(team) shown on a page. The result of the
\* request is the rate.
ParticipationRate(s, team) ==
    /\ last' = [kind |-> "participation_rate", user |-> 0,
                result |-> get_participation_rate(votes, userTeam, s, team),
                trace |-> <<Event("rate", team, s, 0)>>]
    /\ UNCHANGED <<userTeam, votes, teamSummaries, deptSummaries, ops, procs>>

\* ---------------------------------------------------- trends looked up
\* The log entry that names a summary row.
SummaryEvent(kind, row) ==
    [ev |-> kind, a |-> row.owner, s |-> row.session, c |-> row.card,
     value |-> row.average_vote, progress_note |-> row.progress_summary]

\* The log of a trend lookup: the row it was called on, then the previous
\* summary if one was found.
TrendLog(self, previous_summary) ==
    IF previous_summary = NoSummary THEN <<SummaryEvent("self", self)>>
    ELSE <<SummaryEvent("self", self), SummaryEvent("previous", previous_summary)>>

\* summary.calculate_trend() on a TeamSummary, as the manager dashboard calls
\* it (views.py:1655-1657); previous_sessions is the order the database
\* returned the earlier sessions in.
TeamTrend(self, previous_sessions) ==
    LET previous_summary == get_previous_summary(teamSummaries, self, previous_sessions)
    IN  /\ self \in teamSummaries
        /\ last' = [kind |-> "team_trend", user |-> 0,
                    result |-> calculate_trend(self, previous_summary),
                    trace |-> TrendLog(self, previous_summary)]
        /\ UNCHANGED <<userTeam, votes, teamSummaries, deptSummaries, ops, procs>>

\* calculate_trend() on a DepartmentSummary.
DepartmentTrend(self, previous_sessions) ==
    LET previous_summary == get_previous_summary(deptSummaries, self, previous_sessions)
    IN  /\ self \in deptSummaries
        /\ last' = [kind |-> "department_trend", user |-> 0,
                    result |-> calculate_trend(self, previous_summary),
                    trace |-> TrendLog(self, previous_summary)]
        /\ UNCHANGED <<userTeam, votes, teamSummaries, deptSummaries, ops, procs>>

\* The votes of one session in a generated history: who voted on the card,
\* and which colour.
SessionHistories ==
    {{}, {<<1, "green">>}, {<<1, "amber">>}, {<<1, "red">>},
     {<<1, "green">>, <<2, "red">>}}

\* The last loop of generate_active_data (lines 283-289): update_team_summary
\* for every session, card and team.
RECURSIVE RecomputeAll(_, _)
RecomputeAll(db, keys) ==
    IF keys = {} THEN db
    ELSE LET k == CHOOSE x \in keys : TRUE
             updated == update_team_summary(db, k[1], k[2], k[3])
         IN  \* the next pass starts once the call has returned
             IF updated.trace # <<>> THEN RecomputeAll(updated, keys \ {k})
             ELSE db

\* The database after generate_active_data: votes in past and present
\* sessions, and the summaries computed from them.
InitHistory ==
    \E h \in [AllSessions -> SessionHistories] :
        LET vs == {VoteRow(uv[1], s, c, uv[2], "same") :
                      uv \in UNION {h[x] : x \in AllSessions},
                      s \in AllSessions, c \in Cards}
            mine == {v \in vs : <<v.user, v.value>> \in h[v.session]}
            db == RecomputeAll(
                      [votes |-> mine, ts |-> {}, ds |-> {},
                       userTeam |-> [u \in AllUsers |-> InitialTeam(u)], trace |-> <<>>],
                      Teams \X AllSessions \X Cards)
        IN  /\ votes = mine
            /\ teamSummaries = db.ts
            /\ deptSummaries = db.ds
            /\ userTeam = db.userTeam
            /\ last = NoRequest
            /\ ops = 0
            /\ procs = [p \in Procs |-> IdleProc]

\* ------------------------------------------------ department data served
\* User.can_view_department_summary(department)
can_view_department_summary(self, department) ==
    IF UserRole(self) = "admin" \/ UserRole(self) = "senior_manager" THEN TRUE
    ELSE IF UserRole(self) = "department_leader" /\ department = UserDepartment(self)
    THEN TRUE
    ELSE FALSE

\* Session.objects.first() under Meta.ordering = ['-date']: the sessions the
\* query can return.
FirstSessions ==
    {s \in AllSessions : \A p \in AllSessions : SessionDate(p) <= SessionDate(s)}

\* The answer of a page or endpoint, as the request served last: the
\* department whose data the response holds is logged as "served".
Answer(kind, u, result, department, s) ==
    /\ last' = [kind |-> kind, user |-> u, result |-> result,
                trace |-> IF result = "ok" THEN <<Event("served", department, s, 0)>>
                          ELSE <<>>]
    /\ UNCHANGED <<userTeam, votes, teamSummaries, deptSummaries, ops, procs>>

\* views.py department_summary(), GET. department_id is NoDepartment when the
\* URL has none; session is the posted choice, NoSession when the form is
\* not valid.
department_summary(u, department_id, session) ==
    LET department == IF department_id # NoDepartment THEN department_id
                      ELSE UserDepartment(u)
    IN  IF UserRole(u) \notin {"department_leader", "senior_manager"}
        THEN Answer("department_summary", u, "redirect", NoDepartment, NoSession)
        ELSE IF department_id # NoDepartment /\ department_id \notin AllDepartments
        THEN Answer("department_summary", u, "not_found", NoDepartment, NoSession)
        ELSE IF /\ department_id # NoDepartment
                /\ UserRole(u) = "department_leader"
                /\ department # UserDepartment(u)
        THEN Answer("department_summary", u, "forbidden", NoDepartment, NoSession)
        ELSE IF department = NoDepartment
        THEN Answer("department_summary", u, "redirect", NoDepartment, NoSession)
        ELSE \E selected_session \in
                    (IF session # NoSession /\ SessionIsActive(session) THEN {session}
                     ELSE FirstSessions) :
                Answer("department_summary", u, "ok", department, selected_session)

\* views.py department_detail_view(), GET
department_detail_view(u, department_id) ==
    IF department_id \notin AllDepartments
    THEN Answer("department_detail", u, "not_found", NoDepartment, NoSession)
    ELSE IF ~can_view_department_summary(u, department_id)
    THEN Answer("department_detail", u, "forbidden", NoDepartment, NoSession)
    ELSE Answer("department_detail", u, "ok", department_id, NoSession)

\* api/views.py department_summary(), GET. Reading .id of a null
\* request.user.department raises AttributeError.
api_department_summary(u, department_id) ==
    IF department_id \notin AllDepartments
    THEN Answer("api_department_summary", u, "not_found", NoDepartment, NoSession)
    ELSE IF UserRole(u) \notin {"department_leader", "senior_manager"}
    THEN IF UserDepartment(u) = NoDepartment
         THEN Answer("api_department_summary", u, "server_error", NoDepartment, NoSession)
         ELSE IF UserDepartment(u) # department_id
         THEN Answer("api_department_summary", u, "forbidden", NoDepartment, NoSession)
         ELSE Answer("api_department_summary", u, "ok", department_id, NoSession)
    ELSE Answer("api_department_summary", u, "ok", department_id, NoSession)

\* ------------------------------------------- session completion looked up
\* Session.is_complete(): the number of users with a voting role against the
\* number of distinct users with a vote in the session.
is_complete(V, self) ==
    LET eligible_users ==
            Cardinality({u \in AllUsers : UserRole(u) \in {"engineer", "team_leader"}})
        participants == Participants({v \in V : v.session = self})
    IN  eligible_users = participants

\* session.is_complete() called on a session. The result of the request is
\* the boolean returned.
IsComplete(s) ==
    /\ last' = [kind |-> "is_complete", user |-> 0,
                result |-> IF is_complete(votes, s) THEN "True" ELSE "False",
                trace |-> <<Event("complete", 0, s, 0)>>]
    /\ UNCHANGED <<userTeam, votes, teamSummaries, deptSummaries, ops, procs>>

\* ------------------------------------------------ vote history looked up
\* The result None of get_previous_vote: no row.
NoVote == VoteRow(0, 0, 0, None, None)

\* The loop of Vote.get_previous_vote over previous_sessions: the vote of the
\* first session that has one of the user on the card, or None.
RECURSIVE FirstVote(_, _, _, _)
FirstVote(V, user, card, previous_sessions) ==
    IF previous_sessions = <<>> THEN NoVote
    ELSE LET found == VoteKeyRows(V, user, Head(previous_sessions), card)
         IN  IF found # {} THEN CHOOSE v \in found : TRUE
             ELSE FirstVote(V, user, card, Tail(previous_sessions))

\* Vote.get_previous_vote(), with the query's result listed as
\* previous_sessions.
get_previous_vote(V, self, previous_sessions) ==
    FirstVote(V, self.user, self.card, previous_sessions)

\* Vote.has_improved(), given the previous vote found. Comparing a missing
\* score raises TypeError.
has_improved(self, previous_vote) ==
    LET current_score == score_map(self.value)
        previous_score ==
            IF previous_vote = NoVote THEN 0 ELSE score_map(previous_vote.value)
    IN  IF previous_vote = NoVote THEN None
        ELSE IF current_score = 0 \/ previous_score = 0 THEN "TypeError"
        ELSE IF current_score > previous_score THEN "True"
        ELSE "False"

\* vote.has_improved() called on a stored vote; previous_sessions is the order
\* the database returned the earlier sessions in.
HasImproved(self, previous_sessions) ==
    LET previous_vote == get_previous_vote(votes, self, previous_sessions)
    IN  /\ self \in votes
        /\ last' = [kind |-> "has_improved", user |-> self.user,
                    result |-> has_improved(self, previous_vote),
                    trace |-> IF previous_vote = NoVote THEN <<Stored("self", self)>>
                              ELSE <<Stored("self", self),
                                     Stored("previous", previous_vote)>>]
        /\ UNCHANGED <<userTeam, votes, teamSummaries, deptSummaries, ops, procs>>

\* The stored values of one user's votes on one card, session by session: a
\* colour, a string outside the choices, or no vote.
StoredValues == VOTE_CHOICES \cup {OtherValue, Missing}

\* The database after votes in past and present sessions: user 1 on the
\* first card with any stored value, and green votes of another user on that
\* card and of user 1 on another card in no session, in one or in all; the
\* summaries are computed.
InitVotes ==
    \E h \in [AllSessions -> StoredValues] :
    \E other \in {[s \in AllSessions |-> Missing],
                   [s \in AllSessions |-> IF s = 2 THEN "green" ELSE Missing],
                   [s \in AllSessions |-> "green"]} :
        LET mine == {VoteRow(1, s, 1, h[s], "same") :
                        s \in {x \in AllSessions : h[x] # Missing}}
            others == UNION {{VoteRow(2, s, 1, "green", "same"),
                              VoteRow(1, s, NumCards + 1, "green", "same")} :
                                s \in {x \in AllSessions : other[x] # Missing}}
            db == RecomputeAll(
                      [votes |-> mine \cup others, ts |-> {}, ds |-> {},
                       userTeam |-> [u \in AllUsers |-> InitialTeam(u)],
                       trace |-> <<>>],
                      Teams \X AllSessions \X AllCards)
        IN  /\ votes = mine \cup others
            /\ teamSummaries = db.ts
            /\ deptSummaries = db.ds
            /\ userTeam = db.userTeam
            /\ last = NoRequest
            /\ ops = 0
            /\ procs = [p \in Procs |-> IdleProc]

\* ------------------------------------------------ team health looked up
\* Session.objects.filter(is_active=True).order_by('-date').first(): the
\* sessions the query can return, the active ones of the latest date.
LatestActiveSessions ==
    {s \in AllSessions :
        /\ SessionIsActive(s)
        /\ \A p \in AllSessions : SessionIsActive(p) => SessionDate(p) <= SessionDate(s)}

\* team_summaries.filter(average_vote=v).count()
CountAverageVote(rows, v) == Cardinality({x \in rows : x.average_vote = v})

\* Team.get_latest_health_status(), given the session the first query
\* returned.
get_latest_health_status(T, self, latest_session) ==
    LET team_summaries == {x \in T : x.owner = self /\ x.session = latest_session}
        red_count == CountAverageVote(team_summaries, "red")
        amber_count == CountAverageVote(team_summaries, "amber")
        green_count == CountAverageVote(team_summaries, "green")
    IN  IF latest_session = NoSession THEN None
        ELSE IF team_summaries = {} THEN None
        ELSE IF red_count > amber_count /\ red_count > green_count THEN "red"
        ELSE IF amber_count > red_count /\ amber_count > green_count THEN "amber"
        ELSE IF green_count > 0 THEN "green"
        ELSE None

\* team.get_latest_health_status() as health_status_dashboard calls it
\* (views.py:1601). The result of the request is the status.
LatestHealthStatus(self) ==
    /\ \E latest_session \in
            (IF LatestActiveSessions = {} THEN {NoSession} ELSE LatestActiveSessions) :
          last' = [kind |-> "health_status", user |-> 0,
                   result |-> get_latest_health_status(teamSummaries, self, latest_session),
                   trace |-> <<Event("status", self, latest_session, 0)>>]
    /\ UNCHANGED <<userTeam, votes, teamSummaries, deptSummaries, ops, procs>>

\* The teams the voters belong to in a generated database: the teams they
\* start in, or all of them in the last team.
TeamAssignments ==
    {[u \in AllUsers |-> InitialTeam(u)],
     [u \in AllUsers |-> IF u \in Users THEN NumTeams ELSE NoTeam]}

\* The progress note generated with a vote: one of the choices; here the one
\* that goes with the colour, so that votes that differ in colour differ in
\* progress note too.
GeneratedProgress(value) ==
    IF value = "green" THEN "better" ELSE IF value = "amber" THEN "same" ELSE "worse"

\* The database after generate_active_data for the open session: every voter
\* has voted on some of the stored cards, and the summaries are computed.
InitStatus ==
    \E UT \in TeamAssignments :
    \E h \in [Users \X AllCards -> VOTE_CHOICES \cup {Missing}] :
        LET mine == {VoteRow(k[1], 1, k[2], h[k], GeneratedProgress(h[k])) :
                        k \in {x \in Users \X AllCards : h[x] # Missing}}
            db == RecomputeAll(
                      [votes |-> mine, ts |-> {}, ds |-> {}, userTeam |-> UT,
                       trace |-> <<>>],
                      Teams \X {1} \X AllCards)
        IN  /\ votes = mine
            /\ teamSummaries = db.ts
            /\ deptSummaries = db.ds
            /\ userTeam = UT
            /\ last = NoRequest
            /\ ops = 0
            /\ procs = [p \in Procs |-> IdleProc]

\* ----------------------------------------------------------------- inputs
\* The posted pair (value, progress note) of one card: every pair of a value
\* of VOTE_CHOICES with a progress note, a value outside the choices, or a
\* pair with one field missing.
Forms ==
    [value : VOTE_CHOICES, progress : PROGRESS_CHOICES]
    \cup {[value |-> OtherValue, progress |-> "better"],
          [value |-> Missing, progress |-> "same"],
          [value |-> "green", progress |-> Missing]}

\* card_ids of a vote_all submission: cards, each at most once, possibly with
\* an id that names no card before, between or after them.
Distinct(ids) ==
    \A i, j \in 1..Len(ids) : i # j => ids[i] # ids[j]

CardIdLists ==
    {ids \in UNION {[1..n -> Cards \cup {UnknownCard}] : n \in 1..(NumCards + 1)} :
        /\ Distinct(ids)
        /\ \E i \in 1..Len(ids) : ids[i] \in Cards}

Posts == [Cards -> Forms]

\* The forms VoteForm accepts.
ValidForms == {f \in Forms : VoteFormIsValid(f.value, f.progress)}

\* The JSON body of an API vote: progress_note defaults to 'same'.
ApiForms == {f \in Forms : f.progress # Missing}

Next ==
    \/ \E u \in Users, s \in Sessions, c \in Cards, f \in Forms :
            Vote(u, s, c, f.value, f.progress)
    \/ \E u \in Users, s \in Sessions, card_ids \in CardIdLists, post \in Posts :
            VoteAllSubmit(u, s, card_ids, post)
    \/ \E u \in Users, s \in Sessions, c \in Cards, f \in ApiForms :
            ApiSubmitVote(u, s, c, f.value, f.progress)
    \/ \E u \in Users, s \in Sessions :
            ApiSubmitVote(u, s, UnknownCard, "green", "same")
    \/ \E u \in Users, team \in Teams \cup {NoTeam} : Profile(u, team)
    \/ \E v \in votes : AdminDeleteVote(v)

Spec == Init /\ [][Next]_vars

\* The forms posted in the concurrent runs: three valid ones that differ in
\* both fields.
ConcForms ==
    {[value |-> "green", progress |-> "better"],
     [value |-> "amber", progress |-> "same"],
     [value |-> "red", progress |-> "worse"]}

\* The vote-writing entry points served by two workers at once.
NextConc ==
    \/ \E p \in Procs, u \in Users, s \in Sessions, c \in Cards, f \in ConcForms :
            VoteGet(p, u, s, c, f.value, f.progress)
    \/ \E p \in Procs : VoteSave(p)
    \/ \E p \in Procs : TeamRead(p)
    \/ \E p \in Procs : TeamWrite(p)
    \/ \E p \in Procs, u \in Users, s \in Sessions, c \in Cards, f \in ConcForms :
            VoteAllGet(p, u, s, c, f.value, f.progress)
    \/ \E p \in Procs : VoteAllCommit(p)
    \/ \E u \in Users, s \in Sessions, c \in Cards, f \in ConcForms :
            ApiSubmitVote(u, s, c, f.value, f.progress)
    \/ \E u \in Users, s \in Sessions, c \in Cards, f \in ConcForms :
            CreateVote(u, s, c, f.value, f.progress)

SpecConc == Init /\ [][NextConc]_vars

\* Requests one at a time, with the summaries recomputed by the command in
\* between.
NextRecompute ==
    \/ \E u \in Users, s \in Sessions, c \in Cards, f \in ConcForms :
            Vote(u, s, c, f.value, f.progress)
    \/ \E u \in Users, s \in Sessions, c \in Cards, f \in ConcForms :
            ApiSubmitVote(u, s, c, f.value, f.progress)
    \/ \E u \in Users, team \in Teams \cup {NoTeam} : Profile(u, team)
    \/ \E v \in votes : AdminDeleteVote(v)
    \/ \E row \in teamSummaries : AdminDeleteTeamSummary(row)
    \/ \E t \in Teams, s \in Sessions, c \in Cards : Recompute(t, s, c)

SpecRecompute == Init /\ [][NextRecompute]_vars

\* The form posted in the runs below.
GuardForms == {[value |-> "green", progress |-> "better"]}

\* The open session and the closed session held last.
GuardSessions == 1..(NumSessions + 1)

\* Every user, every session and every stored card addressed by the three
\* vote-writing entry points, with team changes and participation lookups.
NextGuards ==
    \/ \E u \in AllUsers, s \in GuardSessions, c \in AllCards, f \in GuardForms :
            Vote(u, s, c, f.value, f.progress)
    \/ \E u \in AllUsers, s \in GuardSessions, c \in AllCards, f \in GuardForms :
            VoteAllSubmit(u, s, <<c>>, [x \in AllCards |-> f])
    \/ \E u \in AllUsers, s \in GuardSessions, c \in AllCards, f \in GuardForms :
            ApiSubmitVote(u, s, c, f.value, f.progress)
    \/ \E u \in AllUsers, team \in Teams \cup {NoTeam} : Profile(u, team)
    \/ \E s \in GuardSessions, team \in Teams \cup {AllTeams} : ParticipationRate(s, team)

SpecGuards == Init /\ [][NextGuards]_vars

\* The web entry points with database errors in the aggregation.
NextFail ==
    \/ \E u \in Users, s \in Sessions, c \in Cards, f \in ConcForms :
            Vote(u, s, c, f.value, f.progress)
    \/ \E u \in Users, s \in Sessions, c \in Cards, f \in ConcForms :
            \E fail \in FailurePoints \ {"none"} :
                VoteFailing(u, s, c, f.value, f.progress, fail)
    \/ \E u \in Users, s \in Sessions, card_ids \in CardIdLists, f \in ConcForms :
            VoteAllSubmit(u, s, card_ids, [c \in AllCards |-> f])
    \/ \E u \in Users, s \in Sessions, card_ids \in CardIdLists, f \in ConcForms :
            \E fail \in FailurePoints \ {"none"} :
                VoteAllSubmitFailing(u, s, card_ids, [c \in AllCards |-> f], fail)

SpecFail == Init /\ [][NextFail]_vars

\* Trends looked up on a generated history.
NextHistory ==
    \/ \E self \in teamSummaries :
            \E q \in NewestFirst(PreviousSessions(self.session)) : TeamTrend(self, q)
    \/ \E self \in deptSummaries :
            \E q \in NewestFirst(PreviousSessions(self.session)) : DepartmentTrend(self, q)

SpecHistory == InitHistory /\ [][NextHistory]_vars

\* Two workers serving the vote page only.
NextRace ==
    \/ \E p \in Procs, u \in Users, s \in Sessions, c \in Cards, f \in ConcForms :
            VoteGet(p, u, s, c, f.value, f.progress)
    \/ \E p \in Procs : VoteSave(p)
    \/ \E p \in Procs : TeamRead(p)
    \/ \E p \in Procs : TeamWrite(p)

SpecRace == Init /\ [][NextRace]_vars

\* Two workers serving the vote page, with update_team_summary followed
\* statement by statement inside its transaction.
NextKeys ==
    \/ \E p \in Procs, u \in Users, s \in Sessions, c \in Cards, f \in ConcForms :
            VoteGet(p, u, s, c, f.value, f.progress)
    \/ \E p \in Procs : VoteSave(p)
    \/ \E p \in Procs : TeamRead(p)
    \/ \E p \in Procs : TeamStage(p)
    \/ \E p \in Procs : DepartmentCommit(p)

SpecKeys == Init /\ [][NextKeys]_vars

\* The forms posted in the runs below.
FrameForms ==
    {[value |-> "green", progress |-> "better"],
     [value |-> "red", progress |-> "worse"]}

\* Two workers serving the vote page, requests that fail in the aggregation,
\* and update_team_summary called on its own at any moment.
NextRepair ==
    \/ \E p \in Procs, u \in Users, s \in Sessions, c \in Cards, f \in FrameForms :
            VoteGet(p, u, s, c, f.value, f.progress)
    \/ \E p \in Procs : VoteSave(p)
    \/ \E p \in Procs : TeamRead(p)
    \/ \E p \in Procs : TeamWrite(p)
    \/ \E u \in Users, s \in Sessions, c \in Cards, f \in FrameForms :
            \E fail \in FailurePoints \ {"none"} :
                VoteFailing(u, s, c, f.value, f.progress, fail)
    \/ \E t \in Teams, s \in Sessions, c \in Cards : Recompute(t, s, c)

SpecRepair == Init /\ [][NextRepair]_vars

\* Votes stored through the API for two sessions and every stored card, and
\* update_team_summary called on its own for any team, session and card.
NextFrame ==
    \/ \E u \in Users, s \in GuardSessions, c \in AllCards, f \in FrameForms :
            ApiSubmitVote(u, s, c, f.value, f.progress)
    \/ \E t \in Teams, s \in GuardSessions, c \in AllCards : Recompute(t, s, c)

SpecFrame == Init /\ [][NextFrame]_vars

\* The posted fields of one card in the submissions below: a valid pair, or
\* a pair whose value is missing.
BatchForms ==
    {[value |-> "green", progress |-> "better"],
     [value |-> Missing, progress |-> "same"]}

\* card_ids of a submission over every stored card, each at most once,
\* possibly with an id that names no card.
BatchLists ==
    {ids \in UNION {[1..n -> AllCards \cup {UnknownCard}] : n \in 1..(NumCards + 2)} :
        /\ Distinct(ids)
        /\ \E i \in 1..Len(ids) : ids[i] \in AllCards}

\* vote_all_submit with several cards in one submission, with and without a
\* database error in the aggregation.
NextBatch ==
    \/ \E u \in Users, s \in Sessions, card_ids \in BatchLists,
          post \in [AllCards -> BatchForms] :
            VoteAllSubmit(u, s, card_ids, post)
    \/ \E u \in Users, s \in Sessions, card_ids \in BatchLists,
          post \in [AllCards -> BatchForms] :
            \E fail \in FailurePoints \ {"none"} :
                VoteAllSubmitFailing(u, s, card_ids, post, fail)

SpecBatch == Init /\ [][NextBatch]_vars

\* Votes on the vote page, and the department pages and the department
\* endpoint of the API requested by every user for every department.
NextAccess ==
    \/ \E u \in Users, s \in Sessions, c \in Cards, f \in ConcForms :
            Vote(u, s, c, f.value, f.progress)
    \/ \E u \in Viewers, d \in AllDepartments \cup {UnknownDepartment, NoDepartment},
          s \in Sessions \cup {NoSession} :
            department_summary(u, d, s)
    \/ \E u \in Viewers, d \in AllDepartments \cup {UnknownDepartment} :
            department_detail_view(u, d)
    \/ \E u \in Viewers, d \in AllDepartments \cup {UnknownDepartment} :
            api_department_summary(u, d)

SpecAccess == Init /\ [][NextAccess]_vars

\* Every user voting through the vote page and the API, and completion
\* looked up.
NextComplete ==
    \/ \E u \in AllUsers, s \in GuardSessions, c \in Cards, f \in GuardForms :
            Vote(u, s, c, f.value, f.progress)
    \/ \E u \in AllUsers, s \in GuardSessions, c \in Cards, f \in GuardForms :
            ApiSubmitVote(u, s, c, f.value, f.progress)
    \/ \E s \in GuardSessions : IsComplete(s)

SpecComplete == Init /\ [][NextComplete]_vars

\* has_improved looked up on the votes of a database with a history.
NextVotes ==
    \E self \in votes :
        \E q \in NewestFirst(PreviousSessions(self.session)) : HasImproved(self, q)

SpecVotes == InitVotes /\ [][NextVotes]_vars

\* Summaries recomputed and team health looked up on a generated database.
NextStatus ==
    \/ \E t \in Teams, c \in AllCards : Recompute(t, 1, c)
    \/ \E t \in Teams : LatestHealthStatus(t)

SpecStatus == InitStatus /\ [][NextStatus]_vars

\* ------------------------------------------------------------- properties
\* The entries of the last request's log of one kind.
LastEvents(kind) ==
    {last.trace[i] : i \in {j \in DOMAIN last.trace : last.trace[j].ev = kind}}

Committed == last.result = "ok"

\* The votes a team's members hold now for a session and card.
CurrentTeamVotes(t, s, c) ==
    {v \in votes : userTeam[v.user] = t /\ v.session = s /\ v.card = c}

\* p = count / total * 100, as an equation between integers.
IsPercentageOf(p, count, total) == p[1] * total = 100 * count * p[2]

Sum3(row) ==
    RAdd(RAdd(row.green_percentage, row.amber_percentage), row.red_percentage)

\* C1: after a request that committed, every TeamSummary that its
\* update_team_summary wrote has green/amber/red percentages equal to
\* count / total * 100 over exactly the votes of the team's current members
\* for the session and card, and there is one such row.
C1_TeamPercentages ==
    Committed =>
        \A e \in LastEvents("team_write") :
            LET mine == CurrentTeamVotes(e.a, e.s, e.c)
                total == Cardinality(mine)
                n(val) == Cardinality({v \in mine : v.value = val})
                rows == KeyRows(teamSummaries, e.a, e.s, e.c)
            IN  /\ total > 0
                /\ Cardinality(rows) = 1
                /\ \A row \in rows :
                    /\ IsPercentageOf(row.green_percentage, n("green"), total)
                    /\ IsPercentageOf(row.amber_percentage, n("amber"), total)
                    /\ IsPercentageOf(row.red_percentage, n("red"), total)

\* C1 witness: a team of two voters got green 50 / red 50 written while a
\* user of another team holds a vote for the same session and card.
C1_Witness ==
    /\ Committed
    /\ \E e \in LastEvents("team_write") :
        /\ Cardinality(CurrentTeamVotes(e.a, e.s, e.c)) = 2
        /\ \E row \in KeyRows(teamSummaries, e.a, e.s, e.c) :
            row.green_percentage = <<50, 1>> /\ row.red_percentage = <<50, 1>>
        /\ \E v \in votes : v.session = e.s /\ v.card = e.c /\ userTeam[v.user] # e.a

\* C2: every TeamSummary written by update_team_summary has percentages
\* that sum to 100.
C2_SumIs100 ==
    Committed =>
        \A e \in LastEvents("team_write") :
            \A row \in KeyRows(teamSummaries, e.a, e.s, e.c) : Sum3(row) = <<100, 1>>

\* green over amber over red on the three stored percentages.
TieBrokenStatus(row) ==
    LET g == row.green_percentage
        a == row.amber_percentage
        r == row.red_percentage
        ge(x, y) == x[1] * y[2] >= y[1] * x[2]
    IN  /\ row.average_vote = "green" <=> (ge(g, a) /\ ge(g, r))
        /\ row.average_vote = "amber" <=> (~(ge(g, a) /\ ge(g, r)) /\ ge(a, r))
        /\ row.average_vote = "red" <=> (~(ge(g, a) /\ ge(g, r)) /\ ~ge(a, r))

\* C3: the average_vote of every stored TeamSummary and DepartmentSummary is
\* the colour of the largest of its three percentages, ties resolved green
\* over amber over red.
C3_AverageVote ==
    \A row \in teamSummaries \cup deptSummaries : TieBrokenStatus(row)

\* C3 witness: a team row and a department row where amber ties with red
\* above green and the stored status is amber, and a row with all three equal
\* stored as green.
C3_Witness ==
    /\ \E row \in teamSummaries :
        /\ row.amber_percentage = <<50, 1>> /\ row.red_percentage = <<50, 1>>
        /\ row.average_vote = "amber"
    /\ \E row \in deptSummaries :
        /\ row.amber_percentage = row.red_percentage
        /\ row.green_percentage = <<0, 1>> /\ row.amber_percentage # <<0, 1>>
        /\ row.average_vote = "amber"
    /\ \E row \in teamSummaries :
        /\ row.green_percentage = row.amber_percentage
        /\ row.amber_percentage = row.red_percentage
        /\ row.average_vote = "green"

\* q * n = the sum of field f over rows
IsMeanOf(q, rows, f) ==
    Norm(<<q[1] * Cardinality(rows), q[2]>>) = SumField(rows, f)

\* C4: every DepartmentSummary written by the last committed request has each
\* percentage equal to the unweighted mean of that percentage over the
\* TeamSummary rows of the department's teams for the session and card.
C4_UnweightedMean ==
    Committed =>
        \A e \in LastEvents("dept_write") :
            LET rows == {x \in teamSummaries :
                            TeamDepartment(x.owner) = e.a /\ x.session = e.s /\ x.card = e.c}
                mine == KeyRows(deptSummaries, e.a, e.s, e.c)
            IN  /\ Cardinality(mine) = 1
                /\ \A row \in mine :
                    /\ IsMeanOf(row.green_percentage, rows, "green_percentage")
                    /\ IsMeanOf(row.amber_percentage, rows, "amber_percentage")
                    /\ IsMeanOf(row.red_percentage, rows, "red_percentage")

\* C4 witness: one team with a single green vote and one team with two red
\* votes give the department green 50 and red 50.
C4_Witness ==
    /\ Committed
    /\ \E e \in LastEvents("dept_write") :
        /\ \E t1, t2 \in Teams :
            /\ TeamDepartment(t1) = e.a /\ TeamDepartment(t2) = e.a
            /\ Cardinality(CurrentTeamVotes(t1, e.s, e.c)) = 1
            /\ Cardinality(CurrentTeamVotes(t2, e.s, e.c)) = 2
            /\ \A v \in CurrentTeamVotes(t1, e.s, e.c) : v.value = "green"
            /\ \A v \in CurrentTeamVotes(t2, e.s, e.c) : v.value = "red"
            /\ \E x \in KeyRows(teamSummaries, t1, e.s, e.c) : x.green_percentage = <<100, 1>>
            /\ \E x \in KeyRows(teamSummaries, t2, e.s, e.c) : x.red_percentage = <<100, 1>>
        /\ \E row \in KeyRows(deptSummaries, e.a, e.s, e.c) :
            /\ row.green_percentage = <<50, 1>>
            /\ row.red_percentage = <<50, 1>>
            /\ row.amber_percentage = <<0, 1>>

\* better over same over worse on three counts.
Majority(b, s, w) ==
    CASE b >= s /\ b >= w -> "better"
      [] ~(b >= s /\ b >= w) /\ s >= w -> "same"
      [] OTHER -> "worse"

\* C5: the progress_summary of a TeamSummary written by the last committed
\* request is the majority of progress_note among the team's votes, and that
\* of a DepartmentSummary it wrote the majority of progress_summary among the
\* department's TeamSummary rows; ties go to better, then same, then worse.
C5_ProgressSummary ==
    Committed =>
        /\ \A e \in LastEvents("team_write") :
            LET mine == CurrentTeamVotes(e.a, e.s, e.c)
                n(p) == Cardinality({v \in mine : v.progress_note = p})
            IN  \A row \in KeyRows(teamSummaries, e.a, e.s, e.c) :
                    row.progress_summary = Majority(n("better"), n("same"), n("worse"))
        /\ \A e \in LastEvents("dept_write") :
            LET rows == {x \in teamSummaries :
                            TeamDepartment(x.owner) = e.a /\ x.session = e.s /\ x.card = e.c}
                n(p) == Cardinality({x \in rows : x.progress_summary = p})
            IN  \A row \in KeyRows(deptSummaries, e.a, e.s, e.c) :
                    row.progress_summary = Majority(n("better"), n("same"), n("worse"))

\* C5 witness: two of the department's three votes say worse, yet the
\* department is better, because one team is better and one is worse; the
\* worse team's summary was written by the last request.
C5_Witness ==
    /\ Committed
    /\ \E e \in LastEvents("dept_write") :
        LET dvotes == {v \in votes : userTeam[v.user] # NoTeam
                          /\ TeamDepartment(userTeam[v.user]) = e.a
                          /\ v.session = e.s /\ v.card = e.c}
        IN  /\ Cardinality({v \in dvotes : v.progress_note = "worse"}) = 2
            /\ Cardinality({v \in dvotes : v.progress_note = "better"}) = 1
            /\ \E row \in KeyRows(deptSummaries, e.a, e.s, e.c) :
                row.progress_summary = "better"
    /\ \E e \in LastEvents("team_write") :
        \E row \in KeyRows(teamSummaries, e.a, e.s, e.c) : row.progress_summary = "worse"

\* C6: in a committed request every TeamSummary write is followed at once by
\* update_department_summary for the team's department, same session and
\* card; when the request ends the DepartmentSummary of that key exists and is
\* the mean of the TeamSummary rows as they are now, the new row included.
C6_DepartmentAfterTeam ==
    Committed =>
        \A i \in DOMAIN last.trace :
            last.trace[i].ev = "team_write" =>
                LET e == last.trace[i]
                    d == TeamDepartment(e.a)
                    rows == {x \in teamSummaries :
                                TeamDepartment(x.owner) = d /\ x.session = e.s /\ x.card = e.c}
                IN  /\ i + 2 <= Len(last.trace)
                    /\ last.trace[i + 1] = Event("dept_call", d, e.s, e.c)
                    /\ last.trace[i + 2] = Event("dept_write", d, e.s, e.c)
                    /\ \E row \in KeyRows(deptSummaries, d, e.s, e.c) :
                        /\ IsMeanOf(row.green_percentage, rows, "green_percentage")
                        /\ IsMeanOf(row.amber_percentage, rows, "amber_percentage")
                        /\ IsMeanOf(row.red_percentage, rows, "red_percentage")

\* C6 witness: a request after the first wrote a team's summary as red 100
\* from the team's single vote, and the department's summary is red 100 when
\* the request ends.
C6_Witness ==
    /\ Committed
    /\ ops >= 2
    /\ \E e \in LastEvents("team_write") :
        /\ \E x \in KeyRows(teamSummaries, e.a, e.s, e.c) : x.red_percentage = <<100, 1>>
        /\ \E row \in KeyRows(deptSummaries, TeamDepartment(e.a), e.s, e.c) :
            row.red_percentage = <<100, 1>>
        /\ Cardinality(CurrentTeamVotes(e.a, e.s, e.c)) = 1

\* C8: every vote upsert of the last request is followed in the same request
\* by exactly one update_team_summary call for the voter's team, the vote's
\* session and the vote's card.
C8_OneAggregationPerUpsert ==
    \A i \in DOMAIN last.trace :
        last.trace[i].ev \in {"insert", "update"} =>
            LET e == last.trace[i]
                call == Event("team_call", userTeam[e.a], e.s, e.c)
            IN  /\ i + 1 <= Len(last.trace)
                /\ last.trace[i + 1] = call
                /\ \A j \in DOMAIN last.trace :
                    (j > i /\ last.trace[j] = call) => j = i + 1

\* C9: every stored TeamSummary holds the percentages of the votes its
\* team's members hold now for its session and card.
C9_SummariesCurrent ==
    \A row \in teamSummaries :
        LET mine == CurrentTeamVotes(row.owner, row.session, row.card)
            total == Cardinality(mine)
            n(val) == Cardinality({v \in mine : v.value = val})
        IN  /\ total > 0
            /\ IsPercentageOf(row.green_percentage, n("green"), total)
            /\ IsPercentageOf(row.amber_percentage, n("amber"), total)
            /\ IsPercentageOf(row.red_percentage, n("red"), total)

\* At most one Vote row per (user, card, session).
C7_Unique ==
    \A u \in Users, s \in Sessions, c \in Cards :
        Cardinality(VoteKeyRows(votes, u, s, c)) <= 1

\* After a step that stored a vote by UPDATE or INSERT, the triple has one
\* row and it holds the submitted value and progress note.
C7_Overwritten ==
    last.result = "ok" =>
        \A i \in DOMAIN last.trace :
            last.trace[i].ev \in {"insert", "update"} =>
                LET e == last.trace[i]
                IN  VoteKeyRows(votes, e.a, e.s, e.c) =
                        {VoteRow(e.a, e.s, e.c, e.value, e.progress_note)}

\* A step in which an INSERT was rejected by the constraint changes no vote.
C7_RejectedInsertKeepsVotes ==
    (\E i \in DOMAIN last'.trace : last'.trace[i].ev = "integrity_error")
        => votes' = votes

\* C7: in every reachable state there is at most one Vote per (user, card,
\* session); a submission that stores a vote leaves exactly one row for the
\* triple, holding its value and progress note, also when submissions for
\* the triple interleave; an INSERT for a triple that has a row is rejected
\* and leaves the votes unchanged.
C7_OneVotePerTriple ==
    /\ [](C7_Unique /\ C7_Overwritten)
    /\ [][C7_RejectedInsertKeepsVotes]_vars

\* C7 witness: two vote requests of one user for a triple that already had a
\* row are in flight at once, both loaded the row, both have saved, and the
\* triple has the single row of the one that saved last.
C7_Witness ==
    \E p, q \in Procs :
        /\ p # q
        /\ procs[p].kind = "vote" /\ procs[q].kind = "vote"
        /\ procs[p].pc \in {"read", "write"} /\ procs[q].pc \in {"read", "write"}
        /\ procs[p].loaded /\ procs[q].loaded
        /\ procs[p].user = procs[q].user
        /\ procs[p].session = procs[q].session /\ procs[p].card = procs[q].card
        /\ procs[p].value # procs[q].value
        /\ last.kind = "vote" /\ last.result = "ok"
        /\ \E i \in DOMAIN last.trace :
            /\ last.trace[i].ev = "update"
            /\ last.trace[i].value = procs[q].value
        /\ VoteKeyRows(votes, procs[q].user, procs[q].session, procs[q].card) =
              {VoteRow(procs[q].user, procs[q].session, procs[q].card,
                       procs[q].value, procs[q].progress)}

\* C10: when the vote requests of two users of one team for the same session
\* and card have both finished, the TeamSummary of the key holds the
\* percentages of the votes the team holds, both users' votes among them.
C10_NoLostUpdate ==
    \A p, q \in Procs :
        ( /\ p # q
          /\ procs[p].pc = "done" /\ procs[q].pc = "done"
          /\ procs[p].user # procs[q].user
          /\ procs[p].team = procs[q].team
          /\ procs[p].session = procs[q].session
          /\ procs[p].card = procs[q].card )
        => LET t == procs[p].team
               mine == CurrentTeamVotes(t, procs[p].session, procs[p].card)
               total == Cardinality(mine)
               n(val) == Cardinality({v \in mine : v.value = val})
           IN  /\ \E v \in mine : v.user = procs[p].user
               /\ \E v \in mine : v.user = procs[q].user
               /\ \E row \in KeyRows(teamSummaries, t, procs[p].session, procs[p].card) :
                    /\ IsPercentageOf(row.green_percentage, n("green"), total)
                    /\ IsPercentageOf(row.amber_percentage, n("amber"), total)
                    /\ IsPercentageOf(row.red_percentage, n("red"), total)

\* A repeated call leaves one TeamSummary row and one DepartmentSummary row
\* for the key it wrote.
C11_OneRowPerKey ==
    (last.kind = "recompute" /\ last.result = "repeated") =>
        \A e \in LastEvents("team_write") :
            /\ Cardinality(KeyRows(teamSummaries, e.a, e.s, e.c)) = 1
            /\ Cardinality(KeyRows(deptSummaries, TeamDepartment(e.a), e.s, e.c)) = 1

\* A repeated call changes no table.
C11_SecondCallChangesNothing ==
    (last'.kind = "recompute" /\ last'.result = "repeated") =>
        /\ teamSummaries' = teamSummaries
        /\ deptSummaries' = deptSummaries
        /\ votes' = votes

C12_DepartmentEmpty ==
    \A d \in Departments, s \in Sessions, c \in Cards :
        DepartmentTeamSummaries(teamSummaries, d, s, c) = {} =>
            LET done == update_department_summary(DB, d, s, c)
            IN  /\ done.ds = deptSummaries
                /\ done.ts = teamSummaries
                /\ done.trace = <<Event("dept_call", d, s, c)>>

\* A call of update_team_summary for a key without votes writes nothing.
C12_TeamEmpty ==
    ( /\ last'.kind = "recompute"
      /\ \E e \in {last'.trace[1]} : CurrentTeamVotes(e.a, e.s, e.c) = {} )
    => /\ teamSummaries' = teamSummaries
       /\ deptSummaries' = deptSummaries
       /\ Len(last'.trace) = 1

\* C12: update_team_summary for a team, session and card without votes
\* creates no TeamSummary, leaves the TeamSummary of the key as it was and
\* changes no DepartmentSummary; update_department_summary for a department,
\* session and card without TeamSummary rows creates and changes no
\* DepartmentSummary; both return normally.
C12_EmptySetNoWrite ==
    /\ []C12_DepartmentEmpty
    /\ [][C12_TeamEmpty]_vars

\* C12 witness: update_team_summary has just run for a key whose team holds no
\* vote now while a TeamSummary of the key and the DepartmentSummary built on
\* it are stored.
C12_Witness ==
    /\ last.kind = "recompute"
    /\ \E e \in {last.trace[1]} :
        /\ CurrentTeamVotes(e.a, e.s, e.c) = {}
        /\ KeyRows(teamSummaries, e.a, e.s, e.c) # {}
        /\ KeyRows(deptSummaries, TeamDepartment(e.a), e.s, e.c) # {}

\* The table a trend lookup read.
TrendTable ==
    IF last.kind = "team_trend" THEN teamSummaries ELSE deptSummaries

IsTrend == last.kind \in {"team_trend", "department_trend"}

\* The stored summaries of the same owner and card as the looked-up row whose
\* session is dated strictly before that row's session.
EarlierSummaries ==
    {x \in TrendTable :
        /\ x.owner = last.trace[1].a
        /\ x.card = last.trace[1].c
        /\ SessionDate(x.session) < SessionDate(last.trace[1].s)}

Score(v) == CASE v = "green" -> 3 [] v = "amber" -> 2 [] v = "red" -> 1

\* C13: calculate_trend on a TeamSummary or DepartmentSummary returns None
\* when no session dated strictly earlier has a summary of the same owner and
\* card; otherwise it returns improving, declining or stable as the row's
\* average_vote scores above, below or equal to the previous summary's, with
\* green 3, amber 2, red 1.
C13_Trend ==
    IsTrend =>
        IF EarlierSummaries = {} THEN last.result = None
        ELSE /\ Len(last.trace) = 2
             /\ LET current == Score(last.trace[1].value)
                     previous == Score(last.trace[2].value)
                 IN  /\ current > previous => last.result = "improving"
                     /\ current < previous => last.result = "declining"
                     /\ current = previous => last.result = "stable"

\* C13 witness: a red department summary whose previous summary is green is
\* declining.
C13_Witness ==
    /\ last.kind = "department_trend"
    /\ Len(last.trace) = 2
    /\ last.trace[1].value = "red"
    /\ last.trace[2].value = "green"
    /\ last.result = "declining"

\* C14: get_previous_summary returns a stored summary of the same owner and
\* card whose session is dated strictly before the row's session and no
\* earlier than any other such summary's session; it returns None exactly
\* when there is no such summary.
C14_PreviousSummary ==
    IsTrend =>
        IF Len(last.trace) = 1 THEN EarlierSummaries = {}
        ELSE /\ \E x \in EarlierSummaries :
                    /\ x.session = last.trace[2].s
                    /\ SummaryEvent("previous", x) = last.trace[2]
             /\ \A x \in EarlierSummaries :
                    SessionDate(x.session) <= SessionDate(last.trace[2].s)

\* C14 witness: the lookup on a team's summary of today's session passed over
\* a later earlier session, which has no summary of the team, and returned
\* the summary of one of two sessions held on the same day before that, both
\* of which have a summary of the team.
C14_Witness ==
    /\ last.kind = "team_trend"
    /\ Len(last.trace) = 2
    /\ \E p, q, r \in AllSessions :
        /\ SessionDate(p) < SessionDate(q)
        /\ SessionDate(q) < SessionDate(last.trace[1].s)
        /\ KeyRows(teamSummaries, last.trace[1].a, q, last.trace[1].c) = {}
        /\ last.trace[2].s = p
        /\ r # p /\ SessionDate(r) = SessionDate(p)
        /\ KeyRows(teamSummaries, last.trace[1].a, r, last.trace[1].c) # {}
        /\ r < p

\* C15: get_participation_rate returns 0 when no user is in scope, and
\* otherwise participants / eligible * 100, where eligible counts the users
\* in scope (all users, or the members of the team) and participants the
\* users in scope who hold at least one vote of the session; the rate lies
\* between 0 and 100.
C15_ParticipationRate ==
    last.kind = "participation_rate" =>
        LET s == last.trace[1].s
            team == last.trace[1].a
            scope == IF team = AllTeams THEN AllUsers
                     ELSE {u \in AllUsers : userTeam[u] = team}
            voted == {u \in scope : \E v \in votes : v.user = u /\ v.session = s}
            rate == last.result
        IN  /\ scope = {} => rate = <<0, 1>>
            /\ scope # {} =>
                  rate[1] * Cardinality(scope) = 100 * Cardinality(voted) * rate[2]
            /\ rate[1] >= 0 /\ rate[2] > 0
            /\ rate[1] <= 100 * rate[2]

\* C15 witness: the rate of a team of two is 50 when one member holds two
\* votes of the session, on two cards, the other member none, and a user
\* outside the team holds a vote of the session.
C15_Witness ==
    /\ last.kind = "participation_rate"
    /\ last.result = <<50, 1>>
    /\ \E u \in AllUsers :
        /\ userTeam[u] = last.trace[1].a
        /\ Cardinality({v \in votes : v.user = u /\ v.session = last.trace[1].s}) = 2
    /\ Cardinality({u \in AllUsers : userTeam[u] = last.trace[1].a}) = 2
    /\ \E v \in votes :
        v.session = last.trace[1].s /\ userTeam[v.user] # last.trace[1].a

IsVoteRequest == last.kind \in {"vote", "vote_all_submit", "api_submit_vote"}

\* The votes the last request stored by INSERT or UPDATE.
StoredByLast == LastEvents("insert") \cup LastEvents("update")

\* C19: no request to vote, vote_all_submit or the API's submit_vote stores
\* a vote, new or changed, for a card whose active flag is false.
C19_InactiveCardsExcluded ==
    IsVoteRequest => \A e \in StoredByLast : CardIsActive(e.c)

\* C20: a request to vote, vote_all_submit or the API's submit_vote stores a
\* vote only for an active session and a user whose role is engineer or
\* team_leader and who has a team.
C20_VotingGuards ==
    IsVoteRequest =>
        \A e \in StoredByLast :
            /\ SessionIsActive(e.s)
            /\ CanVoteRole(e.a)
            /\ userTeam[e.a] # NoTeam

\* The rows of the votes the request of the step stored before it failed.
StoredByNext ==
    {VoteRow(e.a, e.s, e.c, e.value, e.progress_note) :
        e \in {last'.trace[i] : i \in {j \in DOMAIN last'.trace :
                                        last'.trace[j].ev \in {"insert", "update"}}}}

\* C16, as claimed: a vote or vote_all_submit request whose aggregation failed
\* is answered with the error, the votes it had written are stored, and no
\* summary has changed.
C16_VoteKeptOnFailure ==
    [][ last'.result = "server_error" =>
            /\ StoredByNext # {}
            /\ StoredByNext \subseteq votes'
            /\ teamSummaries' = teamSummaries
            /\ deptSummaries' = deptSummaries ]_vars

\* C16, amended: a vote or vote_all_submit request whose aggregation failed is
\* answered with the error and no summary has changed; after vote the vote
\* it had written is stored, after vote_all_submit no vote has changed.
C16_VoteKeptOrRolledBack ==
    [][ last'.result = "server_error" =>
            /\ StoredByNext # {}
            /\ teamSummaries' = teamSummaries
            /\ deptSummaries' = deptSummaries
            /\ last'.kind = "vote" => StoredByNext \subseteq votes'
            /\ last'.kind = "vote_all_submit" => votes' = votes ]_vars

\* C16 witness: a vote_all_submit request of a user whose team has a summary
\* failed in update_department_summary after it had inserted a vote and
\* written the TeamSummary: the vote is not stored and the user holds none.
C16_Witness ==
    /\ last.kind = "vote_all_submit" /\ last.result = "server_error"
    /\ LastEvents("team_write") # {}
    /\ \E e \in LastEvents("insert") :
        /\ VoteKeyRows(votes, e.a, e.s, e.c) = {}
        /\ KeyRows(teamSummaries, userTeam[e.a], e.s, e.c) # {}

\* Every summary row after a step is a row from before the step or holds the
\* five fields of one recompute from the tables as they are after the step.
C17_RowsWhole ==
    /\ \A row \in teamSummaries' :
        \/ row \in teamSummaries
        \/ /\ CurrentTeamVotes(row.owner, row.session, row.card)' # {}
           /\ row = TeamSummaryOf(CurrentTeamVotes(row.owner, row.session, row.card)',
                                  row.owner, row.session, row.card)
    /\ \A row \in deptSummaries' :
        \/ row \in deptSummaries
        \/ row \in update_department_summary(DB', row.owner, row.session, row.card).ds

\* C17: a call of update_team_summary that fails, before the TeamSummary
\* write or in update_department_summary after it, leaves every TeamSummary
\* and DepartmentSummary row as it was; after any request every summary row
\* is either unchanged or holds average_vote, progress_summary and the three
\* percentages of one recompute.
C17_AtomicAggregation ==
    [][ /\ C17_RowsWhole
        /\ last'.result = "server_error" =>
              (teamSummaries' = teamSummaries /\ deptSummaries' = deptSummaries) ]_vars

\* C17 witness: a vote request failed in update_department_summary after
\* update_team_summary had written the TeamSummary; the vote is stored and
\* the stored TeamSummary of its key does not count it.
C17_Witness ==
    /\ last.kind = "vote" /\ last.result = "server_error"
    /\ LastEvents("team_write") # {}
    /\ \E e \in LastEvents("insert") :
        /\ VoteKeyRows(votes, e.a, e.s, e.c) # {}
        /\ \E row \in KeyRows(teamSummaries, userTeam[e.a], e.s, e.c) :
            row # TeamSummaryOf(CurrentTeamVotes(row.owner, e.s, e.c), row.owner, e.s, e.c)

\* C18: when two vote requests, the only ones so far, of users of two
\* different teams for one session and card have both finished, the
\* TeamSummary and DepartmentSummary tables are what update_team_summary for
\* the one key followed by update_team_summary for the other leaves.
C18_IndependentKeys ==
    \A p, q \in Procs :
        ( /\ p # q
          /\ ops = 2
          /\ procs[p].pc = "done" /\ procs[q].pc = "done"
          /\ procs[p].team # procs[q].team
          /\ procs[p].session = procs[q].session
          /\ procs[p].card = procs[q].card )
        => LET one == update_team_summary(DB, procs[p].team, procs[p].session, procs[p].card)
               both == update_team_summary(one, procs[q].team, procs[q].session, procs[q].card)
           IN  /\ teamSummaries = both.ts
               /\ deptSummaries = both.ds

\* The votes of a team counted by colour.
TeamCount(t, s, c, value) ==
    Cardinality({v \in CurrentTeamVotes(t, s, c) : v.value = value})

\* C21: the status that update_team_summary stores, which it derives from the
\* three percentages, is the status the same comparison chain gives on the
\* raw counts of green, amber and red votes of the team: dividing every count
\* by the total and multiplying by 100 changes no comparison.
C21_ScaleInvariant ==
    last.kind = "recompute" =>
        \A e \in LastEvents("team_write") :
            \A row \in KeyRows(teamSummaries, e.a, e.s, e.c) :
                row.average_vote =
                    TeamAverageVote(RInt(TeamCount(e.a, e.s, e.c, "green")),
                                    RInt(TeamCount(e.a, e.s, e.c, "amber")),
                                    RInt(TeamCount(e.a, e.s, e.c, "red")))

\* C21 witness: a recompute wrote the summary of a team with one green and
\* two amber votes: amber is stored at 200/3 percent and the status is amber.
C21_Witness ==
    /\ last.kind = "recompute"
    /\ \E e \in LastEvents("team_write") :
        /\ TeamCount(e.a, e.s, e.c, "green") = 1
        /\ TeamCount(e.a, e.s, e.c, "amber") = 2
        /\ TeamCount(e.a, e.s, e.c, "red") = 0
        /\ \E row \in KeyRows(teamSummaries, e.a, e.s, e.c) :
            /\ row.amber_percentage = <<200, 3>>
            /\ row.average_vote = "amber"

\* C23: Team.get_latest_health_status returns None exactly when the team has
\* no TeamSummary in the most recent active session, and otherwise the colour
\* that most of these summaries have as average_vote, ties resolved green
\* over amber over red.
C23_LatestHealthStatus ==
    last.kind = "health_status" =>
        LET e == last.trace[1]
            rows == {x \in teamSummaries : x.owner = e.a /\ x.session = e.s}
            g == Cardinality({x \in rows : x.average_vote = "green"})
            a == Cardinality({x \in rows : x.average_vote = "amber"})
            r == Cardinality({x \in rows : x.average_vote = "red"})
        IN  /\ e.s \in LatestActiveSessions
            /\ last.result =
                  (IF rows = {} THEN None
                   ELSE IF g >= a /\ g >= r THEN "green"
                   ELSE IF a >= r THEN "amber"
                   ELSE "red")

\* The teams of a department that have a TeamSummary for a session and card.
TeamsWithSummary(d, s, c) ==
    {t \in Teams : TeamDepartment(t) = d /\ KeyRows(teamSummaries, t, s, c) # {}}

\* C29: a DepartmentSummary written by update_department_summary holds, for
\* each colour, the sum of the teams' percentages divided by the number of
\* the department's teams that have a TeamSummary for the session and card,
\* and its progress_summary is the majority among these teams only: a team
\* without a TeamSummary adds nothing to the sum, to the divisor or to the
\* progress counts.
C29_MissingTeamLeftOut ==
    last.kind = "recompute" =>
        \A e \in LastEvents("dept_write") :
            LET present == TeamsWithSummary(e.a, e.s, e.c)
                rows == UNION {KeyRows(teamSummaries, t, e.s, e.c) : t \in present}
                n == Cardinality(present)
                np(p) == Cardinality({t \in present :
                            \E x \in KeyRows(teamSummaries, t, e.s, e.c) :
                                x.progress_summary = p})
            IN  \A row \in KeyRows(deptSummaries, e.a, e.s, e.c) :
                    /\ n > 0
                    /\ Norm(<<row.green_percentage[1] * n, row.green_percentage[2]>>)
                           = SumField(rows, "green_percentage")
                    /\ Norm(<<row.amber_percentage[1] * n, row.amber_percentage[2]>>)
                           = SumField(rows, "amber_percentage")
                    /\ Norm(<<row.red_percentage[1] * n, row.red_percentage[2]>>)
                           = SumField(rows, "red_percentage")
                    /\ row.progress_summary = Majority(np("better"), np("same"), np("worse"))

\* C29 witness: a recompute wrote the DepartmentSummary of a department of
\* which one team has a TeamSummary, all red, and another team has none: the
\* department is stored 100 percent red.
C29_Witness ==
    /\ last.kind = "recompute"
    /\ \E e \in LastEvents("dept_write") :
        /\ \E t \in Teams : TeamDepartment(t) = e.a /\ t \notin TeamsWithSummary(e.a, e.s, e.c)
        /\ \E t \in TeamsWithSummary(e.a, e.s, e.c) :
            \A x \in KeyRows(teamSummaries, t, e.s, e.c) : x.red_percentage = <<100, 1>>
        /\ \E row \in KeyRows(deptSummaries, e.a, e.s, e.c) :
            row.red_percentage = <<100, 1>> /\ row.average_vote = "red"

\* The TeamSummary rows that a DepartmentSummary of the key is computed from.
Contributing(d, s, c) ==
    {x \in teamSummaries : TeamDepartment(x.owner) = d /\ x.session = s /\ x.card = c}

\* C27: when each TeamSummary of the department's teams for the session and
\* card has percentages that sum to 100, the DepartmentSummary that
\* update_department_summary writes from them has percentages that sum to 100.
C27_DepartmentSumIs100 ==
    Committed =>
        \A e \in LastEvents("dept_write") :
            (\A x \in Contributing(e.a, e.s, e.c) : Sum3(x) = <<100, 1>>)
            => \A row \in KeyRows(deptSummaries, e.a, e.s, e.c) : Sum3(row) = <<100, 1>>

\* C27 witness: the last request wrote a DepartmentSummary from two
\* TeamSummary rows that differ and sum to 100 each; the department has
\* green 75 and red 25.
C27_Witness ==
    /\ Committed
    /\ \E e \in LastEvents("dept_write") :
        /\ Cardinality(Contributing(e.a, e.s, e.c)) = 2
        /\ \A x \in Contributing(e.a, e.s, e.c) : Sum3(x) = <<100, 1>>
        /\ \E row \in KeyRows(deptSummaries, e.a, e.s, e.c) :
            /\ row.green_percentage = <<75, 1>>
            /\ row.red_percentage = <<25, 1>>
            /\ Sum3(row) = <<100, 1>>

\* The stored votes of the same user on the same card as the vote looked up
\* whose session is dated strictly before that vote's session.
EarlierVotes ==
    {v \in votes :
        /\ v.user = last.trace[1].a
        /\ v.card = last.trace[1].c
        /\ SessionDate(v.session) < SessionDate(last.trace[1].s)}

\* C22: has_improved on a stored vote returns None when the user has no vote
\* on the card in a session dated strictly earlier; otherwise the previous
\* vote it compares with is the user's vote on the card from the latest such
\* session, and it returns True when the vote's value scores higher than the
\* previous vote's under green 3, amber 2, red 1, and False when it does not.
C22_PreviousVoteAndImproved ==
    last.kind = "has_improved" =>
        IF EarlierVotes = {}
        THEN last.result = None /\ Len(last.trace) = 1
        ELSE /\ Len(last.trace) = 2
             /\ \E v \in EarlierVotes :
                 /\ last.trace[2] = Stored("previous", v)
                 /\ \A w \in EarlierVotes : SessionDate(w.session) <= SessionDate(v.session)
                 /\ last.result =
                       (IF /\ last.trace[1].value \in VOTE_CHOICES
                           /\ v.value \in VOTE_CHOICES
                           /\ Score(last.trace[1].value) > Score(v.value)
                        THEN "True" ELSE "False")

\* C24: Session.is_complete returns True exactly when every user whose role
\* is engineer or team_leader has a vote in the session, whatever votes the
\* users of other roles hold.
C24_IsComplete ==
    last.kind = "is_complete" =>
        (last.result = "True"
         <=> \A u \in AllUsers :
                CanVoteRole(u) => \E v \in votes : v.user = u /\ v.session = last.trace[1].s)

\* The summary rows in the response that served department e.a: the page
\* shows the department's DepartmentSummary rows and its teams' TeamSummary
\* rows of the selected session, the detail page the department's
\* DepartmentSummary rows, the API endpoint the TeamSummary rows of the
\* department's teams.
ServedRows(e) ==
    IF last.kind = "department_summary"
    THEN {x \in deptSummaries : x.owner = e.a /\ x.session = e.s}
         \cup {x \in teamSummaries : TeamDepartment(x.owner) = e.a /\ x.session = e.s}
    ELSE IF last.kind = "department_detail"
    THEN {x \in deptSummaries : x.owner = e.a}
    ELSE {x \in teamSummaries : TeamDepartment(x.owner) = e.a}

IsDepartmentRequest ==
    last.kind \in {"department_summary", "department_detail", "api_department_summary"}

\* C25: the department_summary page, the department detail page and the
\* department_summary endpoint of the API answer with summary rows of a
\* department only when the user is no engineer and no team leader, and for
\* a department leader only when the department is the leader's own.
C25_DepartmentDataAuthorised ==
    IsDepartmentRequest =>
        \A e \in LastEvents("served") :
            ServedRows(e) # {} =>
                /\ UserRole(last.user) \notin {"engineer", "team_leader"}
                /\ UserRole(last.user) = "department_leader"
                       => e.a = UserDepartment(last.user)

\* The entries of one kind in a request's log.
EventsOf(trace, kind) ==
    {trace[i] : i \in {j \in DOMAIN trace : trace[j].ev = kind}}

\* C26: a vote_all_submit request that ends with an error, an unknown card
\* id or a failed summary update, leaves the Vote, TeamSummary and
\* DepartmentSummary tables as they were before the request, whatever it had
\* written for earlier cards; a request that ends normally has stored the
\* vote of every card it did not skip, and a card skipped for a missing
\* value or progress note keeps the vote it had.
C26_AllOrNothing ==
    [][ (ops' = ops + 1 /\ last'.kind = "vote_all_submit") =>
          /\ last'.result \in {"error", "server_error"} =>
                /\ votes' = votes
                /\ teamSummaries' = teamSummaries
                /\ deptSummaries' = deptSummaries
          /\ last'.result = "ok" =>
                /\ \A e \in EventsOf(last'.trace, "insert") \cup EventsOf(last'.trace, "update") :
                      VoteRow(e.a, e.s, e.c, e.value, e.progress_note) \in votes'
                /\ \A e \in EventsOf(last'.trace, "skipped") :
                      VoteKeyRows(votes', e.a, e.s, e.c) = VoteKeyRows(votes, e.a, e.s, e.c) ]_vars

\* C26 witness: a vote_all_submit request skipped one card, inserted the vote
\* of another card and wrote its TeamSummary, and then met an unknown card
\* id: the inserted vote is not stored and its key has no TeamSummary.
C26_Witness ==
    /\ last.kind = "vote_all_submit" /\ last.result = "error"
    /\ LastEvents("skipped") # {}
    /\ LastEvents("http404") # {}
    /\ LastEvents("team_write") # {}
    /\ \E e \in LastEvents("insert") :
        /\ VoteKeyRows(votes, e.a, e.s, e.c) = {}
        /\ KeyRows(teamSummaries, userTeam[e.a], e.s, e.c) = {}

\* The rows that are in one of two tables and not in the other.
ChangedRows(before, after) == (before \ after) \cup (after \ before)

\* C28: a call of update_team_summary(team, session, card) leaves every Vote
\* and every user's team as they were; every TeamSummary row it inserts,
\* replaces or rewrites has the key (team, session, card), and every
\* DepartmentSummary row it inserts, replaces or rewrites has the key
\* (department of the team, session, card). A team always has a department.
C28_Frame ==
    [][ (ops' = ops /\ last'.kind = "recompute") =>
          LET e == last'.trace[1]
          IN  /\ e.ev = "team_call"
              /\ votes' = votes
              /\ userTeam' = userTeam
              /\ \A x \in ChangedRows(teamSummaries, teamSummaries') :
                    x.owner = e.a /\ x.session = e.s /\ x.card = e.c
              /\ \A x \in ChangedRows(deptSummaries, deptSummaries') :
                    x.owner = TeamDepartment(e.a) /\ x.session = e.s /\ x.card = e.c ]_vars

\* C28 witness: update_team_summary has written the TeamSummary and the
\* DepartmentSummary of its key while the tables hold a TeamSummary of
\* another team for the same session and card, a TeamSummary of the same
\* team for another card or session, and a DepartmentSummary of the same
\* department for another card or session.
C28_Witness ==
    /\ last.kind = "recompute"
    /\ LastEvents("team_write") # {}
    /\ \E e \in LastEvents("dept_write") :
        /\ \E x \in teamSummaries :
            x.session = e.s /\ x.card = e.c /\ TeamDepartment(x.owner) = e.a
            /\ <<"team_write", x.owner>> \notin {<<w.ev, w.a>> : w \in LastEvents("team_write")}
        /\ \E w \in LastEvents("team_write") :
            \E x \in teamSummaries : x.owner = w.a /\ <<x.session, x.card>> # <<e.s, e.c>>
        /\ \E x \in deptSummaries : x.owner = e.a /\ <<x.session, x.card>> # <<e.s, e.c>>

\* The row holds what a recompute from the vote set gives: the percentages of
\* the three colours, the status of the largest percentage and the majority
\* progress note.
IsRecomputeOf(row, vs) ==
    /\ IsPercentageOf(row.green_percentage,
                      Cardinality({v \in vs : v.value = "green"}), Cardinality(vs))
    /\ IsPercentageOf(row.amber_percentage,
                      Cardinality({v \in vs : v.value = "amber"}), Cardinality(vs))
    /\ IsPercentageOf(row.red_percentage,
                      Cardinality({v \in vs : v.value = "red"}), Cardinality(vs))
    /\ TieBrokenStatus(row)
    /\ row.progress_summary =
          Majority(Cardinality({v \in vs : v.progress_note = "better"}),
                   Cardinality({v \in vs : v.progress_note = "same"}),
                   Cardinality({v \in vs : v.progress_note = "worse"}))

\* The department row holds the unweighted means and the majority progress
\* of the TeamSummary rows.
IsDepartmentOf(row, rows) ==
    /\ IsMeanOf(row.green_percentage, rows, "green_percentage")
    /\ IsMeanOf(row.amber_percentage, rows, "amber_percentage")
    /\ IsMeanOf(row.red_percentage, rows, "red_percentage")
    /\ TieBrokenStatus(row)
    /\ row.progress_summary =
          Majority(Cardinality({x \in rows : x.progress_summary = "better"}),
                   Cardinality({x \in rows : x.progress_summary = "same"}),
                   Cardinality({x \in rows : x.progress_summary = "worse"}))

\* The tables are repaired for the key (t, s, c): one TeamSummary row, a
\* recompute of the team's votes, and one DepartmentSummary row, computed
\* from the department's TeamSummary rows.
Repaired(t, s, c) ==
    /\ Cardinality(KeyRows(teamSummaries, t, s, c)) = 1
    /\ \A row \in KeyRows(teamSummaries, t, s, c) :
          IsRecomputeOf(row, CurrentTeamVotes(t, s, c))
    /\ Cardinality(KeyRows(deptSummaries, TeamDepartment(t), s, c)) = 1
    /\ \A row \in KeyRows(deptSummaries, TeamDepartment(t), s, c) :
          IsDepartmentOf(row, Contributing(TeamDepartment(t), s, c))

\* C30: whatever earlier requests that failed or ran interleaved have left in
\* the summary tables, a call of update_team_summary that runs on its own for
\* a team with votes for the session and card leaves the TeamSummary of the
\* key equal to a recompute from the team's votes and the DepartmentSummary
\* equal to the unweighted mean of the department's TeamSummary rows. Every
\* step that writes a table replaces the log, so a state whose log is that of
\* such a call holds the tables as the call left them.
C30_RepairsStaleness ==
    last.kind = "recompute" =>
        LET e == last.trace[1]
        IN  (e.ev = "team_call" /\ CurrentTeamVotes(e.a, e.s, e.c) # {})
            => Repaired(e.a, e.s, e.c)

\* C30 witness: a vote request wrote the team's summary from a set of votes
\* that is not the set the team holds, and a later call of update_team_summary
\* on its own for the key has left the summaries repaired; the row a
\* recompute of the request's set gives is not the stored row.
C30_Witness ==
    /\ last.kind = "recompute"
    /\ \E e \in LastEvents("team_write") :
        /\ Repaired(e.a, e.s, e.c)
        /\ \E p \in Procs :
            /\ procs[p].pc = "done"
            /\ <<procs[p].team, procs[p].session, procs[p].card>> = <<e.a, e.s, e.c>>
            /\ procs[p].snapshot # {}
            /\ procs[p].snapshot # CurrentTeamVotes(e.a, e.s, e.c)
            /\ TeamSummaryOf(procs[p].snapshot, e.a, e.s, e.c) \notin teamSummaries

====
